---- MODULE Spec2Model ----
(***************************************************************************)
(* A model of Context2D (src/native/src/context/mod.rs): the logical       *)
(* State and its save/restore stack, the picture recorder with the         *)
(* recording canvas's own save stack (transform and device clip), the      *)
(* clip and render pipeline, and the pixel read-back.                      *)
(*                                                                         *)
(* Geometry is a grid of unit cells.  A region is a set of cells <<x, y>>. *)
(* A matrix is a uniform scale s (1, or 0 for a singular matrix) followed  *)
(* by a translation.  A colour is a name and an alpha (0..255).            *)
(***************************************************************************)
EXTENDS Integers, Sequences, FiniteSets, TLC

\* ------------------------------------------------------------------ bounds
MaxDim   == 2      \* the canvas is MaxDim wide, and 1 or MaxDim high
MaxShift == 1      \* translations range over 0..MaxShift
MaxOps   == 4      \* every sequence of at most MaxOps operations is explored
MaxSets  == 2      \* of which at most MaxSets set a filter
MaxSpecs == 3      \* a filter list has at most MaxSpecs descriptors
MaxText  == 2      \* a measured text has at most MaxText characters
MaxStyleOps == 5   \* style sequences of at most MaxStyleOps operations are explored

VARIABLES
  bounds,          \* Context2D.bounds: Rect
  recorder,        \* Context2D.recorder: the PictureRecorder and its canvas
  state,           \* Context2D.state: State
  stack,           \* Context2D.stack: Vec<State>
  path,            \* Context2D.path: Path
  fault,           \* "panic" when the last operation unwound on an unwrap() of None
  refs,            \* the host object's reference queues, "fillShader" and "strokeShader"
  budget,          \* how many operations the behaviour may take
  ops,             \* history: the number of operations performed
  saved,           \* history: the State and stack depth at each save() not yet restored
  last,            \* history: the last operation, its arguments, result and the context before it
  prev             \* history: the operation before the last

vars == <<bounds, recorder, state, stack, path, fault, refs, budget, ops, saved, last, prev>>

\* ------------------------------------------------------------------ colours
BLACK       == [rgb |-> "black", a |-> 255]
TRANSPARENT == [rgb |-> "none",  a |-> 0]
RED         == [rgb |-> "red",   a |-> 255]
GREY        == [rgb |-> "grey",  a |-> 255]

\* the width a text is laid out at when none is given
GALLEY == 100000

\* ------------------------------------------------------------------ geometry
\* Rect::from_size: a rectangle of the given size at the origin
Rect_from_size(w, h) == [left |-> 0, top |-> 0, right |-> w, bottom |-> h]

Rect_new(l, t, r, b) == [left |-> l, top |-> t, right |-> r, bottom |-> b]

\* the cells a rectangle covers
CellsOf(rect) ==
  {<<x, y>> : x \in rect.left .. (rect.right - 1), y \in rect.top .. (rect.bottom - 1)}

Rect_width(rect)  == rect.right - rect.left
Rect_height(rect) == rect.bottom - rect.top

\* Matrix: p |-> s * p + <<tx, ty>>
Matrix_new_identity == [s |-> 1, tx |-> 0, ty |-> 0]

Matrix_translate(d) == [s |-> 1, tx |-> d[1], ty |-> d[2]]

Matrix_singular == [s |-> 0, tx |-> 0, ty |-> 0]

\* a.concat(b): the matrix applying b first, then a
Matrix_concat(a, b) ==
  [s |-> a.s * b.s, tx |-> a.s * b.tx + a.tx, ty |-> a.s * b.ty + a.ty]

None == [none |-> TRUE]

Some(v) == [none |-> FALSE, some |-> v]

\* Matrix::invert: None for a singular matrix
Matrix_invert(m) ==
  IF m.s = 0 THEN None
  ELSE Some([s |-> 1, tx |-> 0 - m.tx, ty |-> 0 - m.ty])

\* the image of a region under a matrix; a singular matrix collapses every
\* region to zero area, which covers no cell
MapRegion(m, region) ==
  IF m.s = 0 THEN {}
  ELSE {<<c[1] + m.tx, c[2] + m.ty>> : c \in region}

\* ------------------------------------------------------------------ paths
\* A Path is its geometry, as the cells its contours wind around once
\* (one) or twice (two), and its fill type.
Path_new == [one |-> {}, two |-> {}, fill |-> "Winding"]

Path_is_empty(p) == p.one = {} /\ p.two = {}

Path_set_fill_type(p, rule) == [p EXCEPT !.fill = rule]

\* the region a path fills under its fill type
Region(p) == IF p.fill = "Winding" THEN p.one \cup p.two ELSE p.one

Path_with_transform(p, m) ==
  [p EXCEPT !.one = MapRegion(m, p.one), !.two = MapRegion(m, p.two)]

\* Path::op(other, PathOp::Intersect): a path tracing the common region once
Path_op_Intersect(p, q) ==
  Some([one |-> Region(p) \cap Region(q), two |-> {}, fill |-> "EvenOdd"])

Path_of_rect(rect) == [one |-> CellsOf(rect), two |-> {}, fill |-> "Winding"]

\* two overlapping rectangles traced in the same direction
Path_of_rects(r1, r2) ==
  [one  |-> (CellsOf(r1) \cup CellsOf(r2)) \ (CellsOf(r1) \cap CellsOf(r2)),
   two  |-> CellsOf(r1) \cap CellsOf(r2),
   fill |-> "Winding"]

\* ------------------------------------------------------------------ paint, dye, state
Paint_default ==
  [color |-> BLACK, blend |-> "SrcOver", style |-> "Fill", anti_alias |-> FALSE,
   stroke_width |-> 0, stroke_miter |-> 4, filter_quality |-> "None",
   image_filter |-> None, shader |-> None, path_effect |-> None]

Dye_Color(c) == [tag |-> "Color", color |-> c]

\* impl Default for State
State_default ==
  [clip |-> Path_new,
   matrix |-> Matrix_new_identity,
   paint |-> [Paint_default EXCEPT !.stroke_miter = 10, !.color = BLACK,
                                   !.anti_alias = TRUE, !.stroke_width = 1,
                                   !.style = "Fill", !.filter_quality = "Low"],
   stroke_style |-> Dye_Color(BLACK),
   fill_style |-> Dye_Color(BLACK),
   stroke_width |-> 1,
   line_dash_offset |-> 0,
   line_dash_list |-> <<>>,
   global_alpha |-> 1,
   global_composite_operation |-> "SrcOver",
   image_filter_quality |-> "Low",
   image_smoothing_enabled |-> TRUE,
   filter |-> "none",
   shadow_blur |-> 0,
   shadow_color |-> TRANSPARENT,
   shadow_offset |-> <<0, 0>>,
   font |-> "10px sans-serif",
   font_variant |-> "normal",
   font_features |-> <<>>,
   char_style |-> [font_size |-> 10],
   graf_style |-> [max_lines |-> 0],
   text_baseline |-> "Alphabetic",
   text_tracking |-> 0,
   text_wrap |-> FALSE]

\* Dye::mix_into, for a colour: the colour's alpha scaled by the global alpha
Dye_mix_into(dye, paint, alpha) ==
  IF dye.tag = "Color"
  THEN [paint EXCEPT !.color = [rgb |-> dye.color.rgb, a |-> dye.color.a * alpha]]
  ELSE [paint EXCEPT !.shader = Some(dye.shader), !.color.a = 255 * alpha]

\* ------------------------------------------------------------------ the recording canvas
\* PictureRecorder::begin_recording(bounds): a canvas at save count 1 with the
\* identity transform, clipped to the bounds, and nothing recorded
begin_recording(b) ==
  [active |-> TRUE,
   canvas |-> <<[matrix |-> Matrix_new_identity, clip |-> CellsOf(b)]>>,
   cmds   |-> <<>>]

\* PictureRecorder::recording_canvas: Some while a recording is active
recording_canvas(r) == IF r.active THEN Some(r) ELSE None

Top(r) == r.canvas[Len(r.canvas)]

SetTop(r, level) == [r EXCEPT !.canvas[Len(r.canvas)] = level]

canvas_save(r) == [r EXCEPT !.canvas = Append(@, Top(r))]

canvas_restore(r) ==
  IF Len(r.canvas) > 1 THEN [r EXCEPT !.canvas = SubSeq(@, 1, Len(@) - 1)] ELSE r

canvas_restore_to_count(r, n) ==
  IF Len(r.canvas) > n THEN [r EXCEPT !.canvas = SubSeq(@, 1, n)] ELSE r

canvas_set_matrix(r, m) == SetTop(r, [Top(r) EXCEPT !.matrix = m])

canvas_concat(r, m) == SetTop(r, [Top(r) EXCEPT !.matrix = Matrix_concat(@, m)])

\* clip_path(path, ClipOp::Intersect, aa): the device clip narrows to the
\* path's region under the current transform
canvas_clip_path(r, p) ==
  SetTop(r, [Top(r) EXCEPT !.clip = @ \cap MapRegion(Top(r).matrix, Region(p))])

\* a draw call is recorded with the transform and device clip in force
canvas_record(r, cmd) ==
  [r EXCEPT !.cmds = Append(@, [cmd EXCEPT !.ctm = Top(r).matrix, !.clip = Top(r).clip])]

canvas_draw_rect(r, rect, paint) ==
  canvas_record(r, [op |-> "draw_rect", geom |-> CellsOf(rect), paint |-> Some(paint),
                    pict |-> None, ctm |-> None, clip |-> {}])

canvas_draw_path(r, p, paint) ==
  canvas_record(r, [op |-> "draw_path", geom |-> Region(p), paint |-> Some(paint),
                    pict |-> None, ctm |-> None, clip |-> {}])

\* draw_picture(pict, None, paint)
canvas_draw_picture(r, pict, paint) ==
  canvas_record(r, [op |-> "draw_picture", geom |-> {}, paint |-> paint,
                    pict |-> Some(pict), ctm |-> None, clip |-> {}])

\* finish_recording_as_picture(cull): the commands recorded so far
finish_recording_as_picture(r, cull) == Some([cull |-> cull, cmds |-> r.cmds])

\* ------------------------------------------------------------------ Context2D
\* Context2D::new
Context2D_new(b) ==
  [bounds   |-> b,
   recorder |-> LET r == begin_recording(b)
                IN IF ~recording_canvas(r).none THEN canvas_save(r) ELSE r,
   path     |-> Path_new,
   stack    |-> <<>>,
   state    |-> State_default,
   fault    |-> "none"]

\* Context2D::with_canvas: the closure's effect on the recording canvas is
\* kept if there is a recording canvas; done is the canvas the closure leaves
with_canvas(c, done) ==
  IF ~recording_canvas(c.recorder).none
  THEN [c EXCEPT !.recorder = done]
  ELSE c

\* paint_for_shadow() asking for a blur, whatever the offset
paint_for_shadow_needs_blur(c, base_paint) ==
  IF c.state.shadow_color.a > 0 /\ c.state.shadow_blur # 0
  THEN Some([base_paint EXCEPT !.image_filter =
               Some([kind |-> "drop_shadow_only", blur |-> c.state.shadow_blur,
                     color |-> c.state.shadow_color])])
  ELSE None

\* Context2D::paint_for_shadow
paint_for_shadow(c, base_paint) ==
  LET shadow_color  == c.state.shadow_color
      shadow_blur   == c.state.shadow_blur
      shadow_offset == c.state.shadow_offset
  IN IF shadow_color.a > 0 /\ ~(shadow_blur = 0 /\ shadow_offset = <<0, 0>>)
     THEN Some([base_paint EXCEPT !.image_filter =
                  Some([kind |-> "drop_shadow_only", blur |-> shadow_blur,
                        color |-> shadow_color])])
     ELSE None

\* the regional modes without Src
BlendMode_regional_without_Src == {"SrcIn", "SrcOut", "DstIn", "DstOut", "DstATop"}

\* the blend modes render_to_canvas isolates in a layer
BlendMode_regional == {"SrcIn", "SrcOut", "DstIn", "DstOut", "DstATop", "Src"}

\* A draw closure f(canvas, paint) is the one draw call it makes: f.op on
\* the geometry or picture it captured, with the paint it is handed.
call(f, cv, paint) ==
  canvas_record(cv, [op |-> f.op, geom |-> f.geom, paint |-> Some(paint),
                     pict |-> f.pict, ctm |-> None, clip |-> {}])

\* the shadow pass without the restore that ends it
shadow_pass_unrestored(c, cv, shadow_paint, f) ==
  call(f,
       canvas_concat(canvas_set_matrix(canvas_save(cv),
                                       Matrix_translate(c.state.shadow_offset)),
                     c.state.matrix),
       shadow_paint)

\* the shadow pass of render_to_canvas: the closure under translate(offset) * matrix
\* between a save and a restore of the canvas
shadow_pass(c, cv, shadow_paint, f) ==
  canvas_restore(
    call(f,
         canvas_concat(canvas_set_matrix(canvas_save(cv),
                                         Matrix_translate(c.state.shadow_offset)),
                       c.state.matrix),
         shadow_paint))

\* Context2D::render_to_canvas, the direct branch
render_direct(c, paint, f) ==
  IF recording_canvas(c.recorder).none THEN c
  ELSE LET shadow == paint_for_shadow(c, paint)
           shadowed == IF ~shadow.none
                       THEN shadow_pass(c, c.recorder, shadow.some, f)
                       ELSE c.recorder
       IN [c EXCEPT !.recorder = call(f, shadowed, paint)]

\* the regional branch drawing straight to the main canvas, without a layer
render_isolated_unlayered(c, paint, f) == render_direct(c, paint, f)

\* Context2D::render_to_canvas, the regional branch
render_isolated(c, paint, f) ==
  LET layer_paint == [c.state.paint EXCEPT !.blend = "SrcOver"]
      layer0 == begin_recording(c.bounds)
      shadow == paint_for_shadow(c, layer_paint)
      layer1 == IF recording_canvas(layer0).none THEN layer0
                ELSE LET shadowed == IF ~shadow.none
                                     THEN shadow_pass(c, layer0, shadow.some, f)
                                     ELSE layer0
                     IN call(f, canvas_set_matrix(shadowed, c.state.matrix), layer_paint)
      pict == finish_recording_as_picture(layer1, c.bounds)
  IN IF pict.none \/ recording_canvas(c.recorder).none THEN c
     ELSE [c EXCEPT !.recorder =
             canvas_restore(
               canvas_draw_picture(
                 canvas_set_matrix(canvas_save(@), Matrix_new_identity),
                 pict.some, Some(paint)))]

\* Context2D::render_to_canvas
render_to_canvas(c, paint, f) ==
  IF c.state.global_composite_operation \in BlendMode_regional
  THEN render_isolated(c, paint, f)
  ELSE render_direct(c, paint, f)

\* with_matrix() changing the State's matrix only
with_matrix_state_only(c, m) == [c EXCEPT !.state.matrix = m]

\* Context2D::with_matrix: f has already been applied to give m
with_matrix(c, m) ==
  LET c1 == [c EXCEPT !.state.matrix = m]
  IN with_canvas(c1, canvas_set_matrix(c1.recorder, c1.state.matrix))

\* reset_canvas() without the save that follows restore_to_count(1)
reset_canvas_unsaved(c) ==
  with_canvas(c, canvas_restore_to_count(c.recorder, 1))

\* Context2D::reset_canvas
reset_canvas(c) ==
  with_canvas(c, canvas_save(canvas_restore_to_count(c.recorder, 1)))

\* resize() that leaves the recorder as it is instead of replacing it
resize_keeps_recording(c, w, h) ==
  reset_canvas([c EXCEPT !.bounds = Rect_from_size(w, h),
                         !.path = Path_new,
                         !.stack = <<>>,
                         !.state = State_default])

\* Context2D::resize
resize(c, w, h) ==
  LET b == Rect_from_size(w, h)
  IN reset_canvas([c EXCEPT !.bounds = b,
                            !.path = Path_new,
                            !.stack = <<>>,
                            !.state = State_default,
                            !.recorder = begin_recording(b)])

\* Context2D::push
push(c) == [c EXCEPT !.stack = Append(@, c.state)]

\* the transform and clip of a State put on the canvas (pop, get_picture, get_drawable)
apply_state(cv, st) ==
  LET cv1 == canvas_set_matrix(cv, st.matrix)
  IN IF ~Path_is_empty(st.clip) THEN canvas_clip_path(cv1, st.clip) ELSE cv1

\* the rest of pop() once the State has been replaced: the canvas is reset
\* and the State's transform and clip are put on it
resync(c) ==
  LET c1 == reset_canvas(c)
  IN with_canvas(c1, apply_state(c1.recorder, c1.state))

\* pop() taking the oldest saved State instead of the newest
pop_oldest(c) ==
  IF c.stack # <<>>
  THEN resync([c EXCEPT !.state = c.stack[1],
                        !.stack = SubSeq(@, 1, Len(@) - 1)])
  ELSE c

\* pop() resynchronising the canvas even when there is nothing to pop
pop_always_resets(c) ==
  resync(IF c.stack # <<>>
         THEN [c EXCEPT !.state = c.stack[Len(c.stack)],
                        !.stack = SubSeq(@, 1, Len(@) - 1)]
         ELSE c)

\* Context2D::pop
pop(c) ==
  IF c.stack # <<>>
  THEN resync([c EXCEPT !.state = c.stack[Len(c.stack)],
                        !.stack = SubSeq(@, 1, Len(@) - 1)])
  ELSE c

\* Context2D::clip_path; unwrap() of the inverse of a singular matrix panics
clip_path(c, p, rule) ==
  LET inverse == Matrix_invert(c.state.matrix)
  IN IF p.none /\ inverse.none THEN [c EXCEPT !.fault = "panic"]
     ELSE
       LET clip == Path_set_fill_type(
                     IF ~p.none THEN p.some ELSE Path_with_transform(c.path, inverse.some),
                     rule)
           c1 == IF Path_is_empty(c.state.clip)
                 THEN [c EXCEPT !.state.clip = clip]
                 ELSE LET new_clip == Path_op_Intersect(c.state.clip, clip)
                      IN IF ~new_clip.none THEN [c EXCEPT !.state.clip = new_clip.some]
                         ELSE c
       IN with_canvas(c1, canvas_clip_path(c1.recorder, clip))

\* Context2D::draw_rect
draw_rect(c, rect, paint) ==
  render_to_canvas(c, paint, [op |-> "draw_rect", geom |-> CellsOf(rect), pict |-> None])

\* Context2D::paint_for_fill
paint_for_fill(c) ==
  Dye_mix_into(c.state.fill_style, c.state.paint, c.state.global_alpha)

\* Image::from_raster_data(info, data, row_bytes): None when the size is
\* empty or the data do not cover it
Image_from_raster_data(info, buffer) ==
  IF info.w <= 0 \/ info.h <= 0
     \/ ~(CellsOf(Rect_from_size(info.w, info.h)) \subseteq DOMAIN buffer)
  THEN None
  ELSE Some([w |-> info.w, h |-> info.h,
             pixels |-> [p \in CellsOf(Rect_from_size(info.w, info.h)) |-> buffer[p]]])

\* draw_image_rect(image, (src_rect, Strict), dst_rect, paint), for rectangles
\* of one size: the pixels of src_rect land on dst_rect
canvas_draw_image_rect(r, image, src_rect, dst_rect, paint) ==
  canvas_record(r, [op |-> "draw_image_rect", geom |-> CellsOf(dst_rect),
                    paint |-> Some(paint),
                    pict |-> Some([pixels |-> [p \in DOMAIN image.pixels \cap CellsOf(src_rect)
                                                 |-> image.pixels[p]],
                                   at |-> <<dst_rect.left - src_rect.left,
                                            dst_rect.top - src_rect.top>>]),
                    ctm |-> None, clip |-> {}])

\* draw_image(image, point, paint)
canvas_draw_image(r, image, point, paint) ==
  canvas_record(r, [op |-> "draw_image",
                    geom |-> {<<p[1] + point[1], p[2] + point[2]>> : p \in DOMAIN image.pixels},
                    paint |-> Some(paint),
                    pict |-> Some([pixels |-> image.pixels, at |-> point]),
                    ctm |-> None, clip |-> {}])

\* draw_drawable(drawable, matrix): the drawable played under matrix
canvas_draw_drawable(r, drobble, matrix) ==
  [r EXCEPT !.cmds = Append(@, [op |-> "draw_drawable", geom |-> {}, paint |-> None,
                                pict |-> Some(drobble),
                                ctm |-> Matrix_concat(Top(r).matrix, matrix),
                                clip |-> Top(r).clip])]

\* blit_pixels() drawing under the State's transform and clip
blit_pixels_in_state(c, buffer, info, src_rect, dst_rect) ==
  LET bitmap == Image_from_raster_data(info, buffer)
  IN IF bitmap.none THEN c
     ELSE with_canvas(c,
            canvas_draw_image_rect(
              canvas_draw_image_rect(c.recorder, bitmap.some, src_rect, dst_rect,
                                     [Paint_default EXCEPT !.blend = "Clear"]),
              bitmap.some, src_rect, dst_rect, Paint_default))

\* Context2D::blit_pixels
blit_pixels(c, buffer, info, src_rect, dst_rect) ==
  LET bitmap == Image_from_raster_data(info, buffer)
  IN IF bitmap.none THEN c
     ELSE LET c1 == reset_canvas(push(c))
              paint == Paint_default
              eraser == [Paint_default EXCEPT !.blend = "Clear"]
          IN pop(with_canvas(c1,
                   canvas_draw_image_rect(
                     canvas_draw_image_rect(c1.recorder, bitmap.some, src_rect, dst_rect, eraser),
                     bitmap.some, src_rect, dst_rect, paint)))

\* Matrix::map_point
Matrix_map_point(m, pt) == <<m.s * pt[1] + m.tx, m.s * pt[2] + m.ty>>

\* in_local_coordinates() answering the origin for a singular matrix
in_local_coordinates_or_origin(c, x, y) ==
  LET inverse == Matrix_invert(c.state.matrix)
  IN IF ~inverse.none THEN Matrix_map_point(inverse.some, <<x, y>>) ELSE <<0, 0>>

\* Context2D::in_local_coordinates
in_local_coordinates(c, x, y) ==
  LET inverse == Matrix_invert(c.state.matrix)
  IN IF ~inverse.none THEN Matrix_map_point(inverse.some, <<x, y>>) ELSE <<x, y>>

\* Context2D::draw_path; unwrap() of the inverse of a singular matrix panics
draw_path(c, paint) ==
  LET inverse == Matrix_invert(c.state.matrix)
  IN IF inverse.none THEN [c EXCEPT !.fault = "panic"]
     ELSE LET p == Path_with_transform(c.path, inverse.some)
          IN render_to_canvas(c, paint,
                              [op |-> "draw_path", geom |-> Region(p), pict |-> None])

\* Context2D::paint_for_stroke
paint_for_stroke(c) ==
  LET paint == Dye_mix_into(c.state.stroke_style,
                            [c.state.paint EXCEPT !.style = "Stroke"],
                            c.state.global_alpha)
  IN IF c.state.line_dash_list # <<>>
     THEN [paint EXCEPT !.path_effect =
             Some([dash |-> c.state.line_dash_list, offset |-> c.state.line_dash_offset])]
     ELSE paint

\* Path::contains
Path_contains(p, pt) == pt \in Region(p)

\* the cells of a region that touch a cell outside it: where its outline runs
Outline(region) ==
  {c \in region : \E d \in {<<1, 0>>, <<0 - 1, 0>>, <<0, 1>>, <<0, 0 - 1>>} :
                    <<c[1] + d[1], c[2] + d[2]>> \notin region}

\* Paint::get_fill_path: the traced outline of the stroke, None if tracing
\* fails (traceable is the outcome of the tracing)
Paint_get_fill_path(paint, p, traceable) ==
  IF traceable /\ paint.style = "Stroke"
  THEN Some([one |-> Outline(Region(p)), two |-> {}, fill |-> "Winding"])
  ELSE None

\* hit_test_path() leaving the fill rule it tested with on the path
hit_test_path_keeps_rule(c, p, point, rule, style, traceable) ==
  LET local == in_local_coordinates(c, point[1], point[2])
      p1 == Path_set_fill_type(p, IF rule.none THEN "Winding" ELSE rule.some)
  IN [ctx |-> c, path |-> p1, point |-> local, is_in |-> Path_contains(p1, local)]

\* Context2D::hit_test_path: the context, the caller's path as the call
\* leaves it, the point tested and the answer
hit_test_path(c, p, point, rule, style, traceable) ==
  LET local == in_local_coordinates(c, point[1], point[2])
      rule1 == IF rule.none THEN "Winding" ELSE rule.some
      prev_rule == p.fill
      p1 == Path_set_fill_type(p, rule1)
      is_in == IF style = "Stroke"
               THEN LET traced == Paint_get_fill_path(paint_for_stroke(c), p1, traceable)
                    IN IF ~traced.none THEN Path_contains(traced.some, local)
                       ELSE Path_contains(p1, local)
               ELSE Path_contains(p1, local)
  IN [ctx |-> c, path |-> Path_set_fill_type(p1, prev_rule), point |-> local,
      is_in |-> is_in]

\* ------------------------------------------------------------------ rasterising a picture
\* Colours are premultiplied on a raster surface: a pixel of alpha 0 is TRANSPARENT.
Pixel(rgb, a) == IF a = 0 THEN TRANSPARENT ELSE [rgb |-> rgb, a |-> a]

\* the colour a paint puts on the cells it covers: the shadow colour under a
\* drop_shadow_only filter, the paint's colour otherwise
SourceColor(paint) ==
  IF ~paint.image_filter.none /\ paint.image_filter.some.kind = "drop_shadow_only"
  THEN Pixel(paint.image_filter.some.color.rgb,
             (paint.image_filter.some.color.a * paint.color.a) \div 255)
  ELSE Pixel(paint.color.rgb, paint.color.a)

\* Porter-Duff compositing of a source pixel s over a destination pixel d,
\* for pixels that are either opaque or transparent
Blend(mode, s, d) ==
  LET sa == s.a > 0
      da == d.a > 0
  IN CASE mode = "Clear"   -> TRANSPARENT
       [] mode = "Src"     -> s
       [] mode = "SrcOver" -> IF sa THEN s ELSE d
       [] mode = "DstOver" -> IF da THEN d ELSE s
       [] mode = "SrcIn"   -> IF da THEN s ELSE TRANSPARENT
       [] mode = "SrcOut"  -> IF da THEN TRANSPARENT ELSE s
       [] mode = "DstIn"   -> IF sa THEN d ELSE TRANSPARENT
       [] mode = "DstOut"  -> IF sa THEN TRANSPARENT ELSE d
       [] mode = "SrcATop" -> IF sa /\ da THEN s ELSE d
       [] mode = "DstATop" -> IF sa THEN (IF da THEN d ELSE s) ELSE TRANSPARENT
       [] mode = "Xor"     -> IF sa /\ da THEN TRANSPARENT ELSE IF sa THEN s ELSE d

RECURSIVE Playback(_, _, _, _)
RECURSIVE DrawCmd(_, _, _, _)

\* the source pixel a recorded image puts on the cell g of its geometry: the
\* image's pixel there, scaled by the paint's alpha, or the shadow colour
\* where the image is not transparent under a drop_shadow_only filter
ImageSource(cmd, g) ==
  LET img == cmd.pict.some
      at  == <<g[1] - img.at[1], g[2] - img.at[2]>>
      px  == IF at \in DOMAIN img.pixels THEN img.pixels[at] ELSE TRANSPARENT
      pt  == cmd.paint.some
  IN IF px.a = 0 THEN TRANSPARENT
     ELSE IF ~pt.image_filter.none /\ pt.image_filter.some.kind = "drop_shadow_only"
          THEN SourceColor(pt)
          ELSE Pixel(px.rgb, (px.a * pt.color.a) \div 255)

\* one recorded command drawn onto the pixel buffer buf, the picture it belongs
\* to being played under matrix m and device clip clip.  A shape blends on the
\* cells it covers; a picture drawn with a paint is rendered into a layer the
\* size of its cull rectangle, and the whole layer is blended; a picture
\* without a paint and a drawable are played in place, the picture only if
\* its cull rectangle meets the clip (SkCanvas rejects it as a whole otherwise).
DrawCmd(cmd, buf, m, clip) ==
  LET total == Matrix_concat(m, cmd.ctm)
      dclip == MapRegion(m, cmd.clip) \cap clip
  IN IF cmd.op \in {"draw_picture", "draw_drawable"}
     THEN IF cmd.paint.none
          THEN IF cmd.op = "draw_picture"
                  /\ MapRegion(total, CellsOf(cmd.pict.some.cull)) \cap dclip = {}
               THEN buf
               ELSE Playback(cmd.pict.some.cmds, buf, total, dclip)
          ELSE LET layer == Playback(cmd.pict.some.cmds,
                                     [p \in DOMAIN buf |-> TRANSPARENT], total, dclip)
                   area  == MapRegion(total, CellsOf(cmd.pict.some.cull)) \cap dclip
                   pt    == cmd.paint.some
               IN [p \in DOMAIN buf |->
                     IF p \in area
                     THEN Blend(pt.blend,
                                Pixel(layer[p].rgb, (layer[p].a * pt.color.a) \div 255),
                                buf[p])
                     ELSE buf[p]]
     ELSE LET region == MapRegion(total, cmd.geom) \cap dclip
              pt     == cmd.paint.some
          IN [p \in DOMAIN buf |->
                IF p \in region
                THEN Blend(pt.blend,
                           IF cmd.op \in {"draw_image", "draw_image_rect"}
                           THEN ImageSource(cmd, <<p[1] - total.tx, p[2] - total.ty>>)
                           ELSE SourceColor(pt),
                           buf[p])
                ELSE buf[p]]

Playback(cmds, buf, m, clip) ==
  IF cmds = <<>> THEN buf
  ELSE Playback(Tail(cmds), DrawCmd(Head(cmds), buf, m, clip), m, clip)

\* Surface::new_raster_n32_premul(size): a transparent surface, None for an empty size
Surface_new_raster_n32_premul(w, h) ==
  IF w <= 0 \/ h <= 0 THEN None
  ELSE Some([p \in CellsOf(Rect_from_size(w, h)) |-> TRANSPARENT])

\* surface.canvas().draw_picture(pict, matrix, None)
Surface_draw_picture(surface, pict, m) ==
  Playback(pict.cmds, surface, m, DOMAIN surface)

\* Context2D::get_picture: the snapshot, and the recording restarted with it
get_picture(c, cull) ==
  LET snapshot == IF c.recorder.active
                  THEN finish_recording_as_picture(c.recorder, IF cull.none THEN c.bounds ELSE cull.some)
                  ELSE None
      r0 == begin_recording(c.bounds)
      r1 == IF recording_canvas(r0).none THEN r0
            ELSE LET filled == IF ~snapshot.none
                               THEN canvas_draw_picture(r0, snapshot.some, None)
                               ELSE r0
                 IN apply_state(canvas_save(filled), c.state)
  IN [ctx |-> [c EXCEPT !.recorder = r1], out |-> snapshot]

\* get_pixels() that never writes the caller's buffer
get_pixels_unwritten(c, buffer, origin, w, h) ==
  [ctx |-> get_picture(c, None).ctx, out |-> buffer]

\* Context2D::get_pixels: the buffer is written only when the snapshot and the
\* raster surface both exist
get_pixels(c, buffer, origin, w, h) ==
  LET got == get_picture(c, None)
      surface == Surface_new_raster_n32_premul(w, h)
  IN [ctx |-> got.ctx,
      out |-> IF ~got.out.none /\ ~surface.none
              THEN Surface_draw_picture(surface.some, got.out.some,
                                        Matrix_translate(<<0 - origin[1], 0 - origin[2]>>))
              ELSE buffer]

\* Context2D::get_drawable: the snapshot, and the recording restarted with it
get_drawable(c) ==
  LET drobble == IF c.recorder.active
                 THEN Some([cull |-> c.bounds, cmds |-> c.recorder.cmds])
                 ELSE None
      r0 == begin_recording(c.bounds)
      r1 == IF recording_canvas(r0).none THEN r0
            ELSE LET filled == IF ~drobble.none
                               THEN canvas_draw_drawable(r0, drobble.some, Matrix_new_identity)
                               ELSE r0
                 IN apply_state(canvas_save(filled), c.state)
  IN [ctx |-> [c EXCEPT !.recorder = r1], out |-> drobble]

\* Context2D::draw_image, for rectangles of one size
draw_image(c, img, src_rect, dst_rect) ==
  LET canvas_paint == [c.state.paint EXCEPT !.color.a = 255 * c.state.global_alpha]
  IN IF img.none THEN c
     ELSE render_to_canvas(c, canvas_paint,
            [op |-> "draw_image_rect", geom |-> CellsOf(dst_rect),
             pict |-> Some([pixels |-> [p \in DOMAIN img.some.pixels \cap CellsOf(src_rect)
                                          |-> img.some.pixels[p]],
                            at |-> <<dst_rect.left - src_rect.left,
                                     dst_rect.top - src_rect.top>>])])

\* Context2D::color_with_alpha
color_with_alpha(c, src) == [src EXCEPT !.a = @ * c.state.global_alpha]

\* what draw_drawable() puts on the canvas, for rectangles of one size;
\* allocated is whether the raster surface for the shadow could be allocated
draw_drawable_canvas(c, r, drobble, src_rect, dst_rect, allocated) ==
  LET paint == [c.state.paint EXCEPT !.color = color_with_alpha(c, BLACK)]
      matrix == Matrix_translate(<<0 - src_rect.left, 0 - src_rect.top>>)
      shadow_paint == paint_for_shadow(c, paint)
      surface == IF allocated
                 THEN Surface_new_raster_n32_premul(Rect_width(dst_rect), Rect_height(dst_rect))
                 ELSE None
      shadowed ==
        IF ~shadow_paint.none /\ ~surface.none
        THEN canvas_draw_image(r,
               [pixels |-> Playback(drobble.cmds, surface.some, matrix, DOMAIN surface.some)],
               <<dst_rect.left, dst_rect.top>>, shadow_paint.some)
        ELSE r
      placed == Matrix_concat(matrix, Matrix_translate(<<dst_rect.left, dst_rect.top>>))
  IN canvas_draw_drawable(canvas_clip_path(shadowed, Path_of_rect(dst_rect)), drobble, placed)

\* draw_drawable() that never pops the State it pushed
draw_drawable_unpopped(c, drobble, src_rect, dst_rect, allocated) ==
  IF drobble.none THEN c
  ELSE LET c1 == push(c)
       IN with_canvas(c1, draw_drawable_canvas(c1, c1.recorder, drobble.some,
                                               src_rect, dst_rect, allocated))

\* Context2D::draw_drawable
draw_drawable(c, drobble, src_rect, dst_rect, allocated) ==
  IF drobble.none THEN c
  ELSE LET c1 == push(c)
       IN pop(with_canvas(c1, draw_drawable_canvas(c1, c1.recorder, drobble.some,
                                                   src_rect, dst_rect, allocated)))

\* ------------------------------------------------------------------ filters
\* A filter amount v stands for the number v / Unit, so that the amounts of
\* the model are exact in f32; a colour-matrix entry e is kept as the integer
\* e * MatrixScale * Unit.
Unit == 4

MatrixScale == 10000

\* f32 -> u8 without saturation
as_u8_unsaturated(n) == IF n < 0 THEN 0 - ((0 - n) \div Unit) ELSE n \div Unit

\* f32 -> u8 by `as`: truncated towards zero and saturated; n / Unit is the value
as_u8(n) ==
  LET t == IF n < 0 THEN 0 - ((0 - n) \div Unit) ELSE n \div Unit
  IN IF t < 0 THEN 0 ELSE IF t > 255 THEN 255 ELSE t

\* value.max(0.0) and value.max(0.0).min(1.0)
max0(v) == IF v < 0 THEN 0 ELSE v

clamp01(v) == IF v < 0 THEN 0 ELSE IF v > Unit THEN Unit ELSE v

\* color_filters::matrix_row_major
color_filters_matrix_row_major(rows) == [kind |-> "matrix", rows |-> rows]

\* table_color_filter::from_argb(None, table, table, table)
table_color_filter_from_argb(ramp) ==
  [kind |-> "table", a |-> None, r |-> Some(ramp), g |-> Some(ramp), b |-> Some(ramp)]

\* image_filters::color_filter(cf, input, None)
image_filters_color_filter(cf, chain) ==
  Some([kind |-> "color_filter", filter |-> cf, input |-> chain])

\* the luminance-weighted matrices of grayscale, saturate and sepia: the
\* coefficients k (in 1/MatrixScale) mixed with the identity by amt
MixMatrix(k, amt) ==
  LET one == MatrixScale * Unit
  IN << << k[1][1] * Unit + (MatrixScale - k[1][1]) * amt, k[1][2] * Unit - k[1][2] * amt,
           k[1][3] * Unit - k[1][3] * amt, 0, 0 >>,
        << k[2][1] * Unit - k[2][1] * amt, k[2][2] * Unit + (MatrixScale - k[2][2]) * amt,
           k[2][3] * Unit - k[2][3] * amt, 0, 0 >>,
        << k[3][1] * Unit - k[3][1] * amt, k[3][2] * Unit - k[3][2] * amt,
           k[3][3] * Unit + (MatrixScale - k[3][3]) * amt, 0, 0 >>,
        << 0, 0, 0, one, 0 >> >>

Luminance == << <<2126, 7152, 722>>, <<2126, 7152, 722>>, <<2126, 7152, 722>> >>

Sepia == << <<3930, 7690, 1890>>, <<3490, 6860, 1680>>, <<2720, 5340, 1310>> >>

\* to_radians(value).cos() and .sin() for an angle of whole quarter turns
\* (value / Unit degrees)
QuarterTurnCos(value) ==
  LET q == (value \div (90 * Unit)) % 4 IN IF q = 0 THEN 1 ELSE IF q = 2 THEN 0 - 1 ELSE 0

QuarterTurnSin(value) ==
  LET q == (value \div (90 * Unit)) % 4 IN IF q = 1 THEN 1 ELSE IF q = 3 THEN 0 - 1 ELSE 0

\* the closure of the fold in set_filter: the chain with next_filter on top
\* of it, or the chain itself for an effect name that is not known
next_filter_onto(chain, next_filter) ==
  IF next_filter.tag = "Shadow"
  THEN Some([kind |-> "drop_shadow", offset |-> next_filter.offset,
             blur |-> next_filter.blur, color |-> next_filter.color, input |-> chain])
  ELSE
    LET name == next_filter.name
        value == next_filter.value
        one == MatrixScale * Unit
    IN CASE name = "blur" ->
              Some([kind |-> "blur", sigma |-> value, tile |-> "Clamp", input |-> chain])
         [] name = "brightness" ->
              LET amt == max0(value) * MatrixScale
              IN image_filters_color_filter(color_filters_matrix_row_major(
                   << <<amt, 0, 0, 0, 0>>, <<0, amt, 0, 0, 0>>,
                      <<0, 0, amt, 0, 0>>, <<0, 0, 0, one, 0>> >>), chain)
         [] name = "contrast" ->
              LET amt == max0(value)
                  ramp == [i \in 0 .. 255 |-> as_u8(127 * Unit + amt * i - 127 * amt)]
              IN image_filters_color_filter(table_color_filter_from_argb(ramp), chain)
         [] name = "grayscale" ->
              image_filters_color_filter(color_filters_matrix_row_major(
                MixMatrix(Luminance, Unit - clamp01(value))), chain)
         [] name = "invert" ->
              LET amt == clamp01(value)
                  ramp == [i \in 0 .. 255 |->
                             as_u8((i * (Unit - amt) + (255 - i) * amt))]
              IN image_filters_color_filter(table_color_filter_from_argb(ramp), chain)
         [] name = "opacity" ->
              LET amt == clamp01(value) * MatrixScale
              IN image_filters_color_filter(color_filters_matrix_row_major(
                   << <<one, 0, 0, 0, 0>>, <<0, one, 0, 0, 0>>,
                      <<0, 0, one, 0, 0>>, <<0, 0, 0, amt, 0>> >>), chain)
         [] name = "saturate" ->
              image_filters_color_filter(color_filters_matrix_row_major(
                MixMatrix(Luminance, max0(value))), chain)
         [] name = "sepia" ->
              image_filters_color_filter(color_filters_matrix_row_major(
                MixMatrix(Sepia, Unit - clamp01(value))), chain)
         [] name = "hue-rotate" ->
              LET cos == QuarterTurnCos(value)
                  sin == QuarterTurnSin(value)
                  U == Unit
              IN image_filters_color_filter(color_filters_matrix_row_major(
                   << << 2130 * U + cos * 7870 * U - sin * 2130 * U,
                         7150 * U - cos * 7150 * U - sin * 7150 * U,
                         720 * U - cos * 720 * U + sin * 9280 * U, 0, 0 >>,
                      << 2130 * U - cos * 2130 * U + sin * 1430 * U,
                         7150 * U + cos * 2850 * U + sin * 1400 * U,
                         720 * U - cos * 720 * U - sin * 2830 * U, 0, 0 >>,
                      << 2130 * U - cos * 2130 * U - sin * 7870 * U,
                         7150 * U - cos * 7150 * U + sin * 7150 * U,
                         720 * U + cos * 9280 * U + sin * 720 * U, 0, 0 >>,
                      << 0, 0, 0, one, 0 >> >>), chain)
         [] OTHER -> chain

RECURSIVE fold_right(_, _)

\* the fold taken from the right: the last listed filter innermost
fold_right(specs, chain) ==
  IF specs = <<>> THEN chain
  ELSE next_filter_onto(fold_right(Tail(specs), chain), Head(specs))

RECURSIVE fold(_, _)

\* specs.iter().fold(chain, ...)
fold(specs, chain) ==
  IF specs = <<>> THEN chain
  ELSE fold(Tail(specs), next_filter_onto(chain, Head(specs)))

\* Context2D::set_filter
set_filter(c, filter_text, specs) ==
  [c EXCEPT !.state.paint.image_filter = fold(specs, None),
            !.state.filter = filter_text]

\* ------------------------------------------------------------------ text
\* A text is a sequence of characters; a character takes one code unit,
\* "e'" (an accented letter) two.
Units(ch) == IF ch = "e'" THEN 2 ELSE 1

RECURSIVE UnitsOf(_)

\* the length of a text in code units
UnitsOf(text) == IF text = <<>> THEN 0 ELSE Units(Head(text)) + UnitsOf(Tail(text))

\* text.replace("\n", " ")
replace_newlines(text) == [i \in 1 .. Len(text) |-> IF text[i] = "\n" THEN " " ELSE text[i]]

\* TextStyle::font_metrics: the ascent (upwards, negative) and descent of the font
font_metrics(char_style) ==
  [ascent |-> 0 - (char_style.font_size - 2), descent |-> 2]

\* the positions of the characters at which the lines of a text start:
\* the first, and each one after a newline
LineStarts(text) ==
  {i \in 1 .. Len(text) : i = 1 \/ text[i - 1] = "\n"}

\* Paragraph (built and laid out at a width no line reaches): the line
\* metrics of the visual lines, none for an empty text, at most max_lines of
\* them when max_lines is not 0.  Every character advances by one; a line's
\* width leaves out its trailing white space.
Paragraph_layout(text, max_lines, metrics) ==
  LET starts == LineStarts(text)
      nth(k) == CHOOSE i \in starts : Cardinality({j \in starts : j < i}) = k - 1
      count == IF max_lines # 0 /\ Cardinality(starts) > max_lines
               THEN max_lines ELSE Cardinality(starts)
      stop(i) == IF \E j \in i .. Len(text) : text[j] = "\n"
                 THEN CHOOSE j \in i .. Len(text) :
                        text[j] = "\n" /\ \A k \in i .. (j - 1) : text[k] # "\n"
                 ELSE Len(text) + 1
      inked(i) == {j \in i .. (stop(i) - 1) : text[j] \notin {" ", "\n"}}
      last_ink(i) == IF inked(i) = {} THEN i - 1
                     ELSE CHOOSE j \in inked(i) : \A k \in inked(i) : k <= j
  IN [k \in 1 .. count |->
        LET i == nth(k)
        IN [start_index |-> UnitsOf(SubSeq(text, 1, i - 1)),
            end_excluding_whitespaces |-> UnitsOf(SubSeq(text, 1, last_ink(i))),
            left |-> 0,
            width |-> last_ink(i) - i + 1,
            baseline |-> (k - 1) * (metrics.descent - metrics.ascent) - metrics.ascent,
            ascent |-> 0 - metrics.ascent,
            descent |-> metrics.descent]]

\* Context2D::typeset: the laid-out paragraph, as its line metrics
typeset(c, text, width, paint) ==
  IF c.state.text_wrap
  THEN Paragraph_layout(text, c.state.graf_style.max_lines,
                        font_metrics(c.state.char_style))
  ELSE Paragraph_layout(replace_newlines(text), 1, font_metrics(c.state.char_style))

\* string_idx_range: a range of code units as a range of characters
string_idx_range(text, start, end) ==
  [start |-> Cardinality({i \in 1 .. Len(text) : UnitsOf(SubSeq(text, 1, i)) <= start}),
   end   |-> Cardinality({i \in 1 .. Len(text) : UnitsOf(SubSeq(text, 1, i)) <= end})]

\* Rect::new_empty, Rect::is_empty, Rect::with_offset, Rect::join2
Rect_new_empty == Rect_new(0, 0, 0, 0)

Rect_is_empty(r) == r.left >= r.right \/ r.top >= r.bottom

Rect_with_offset(r, d) == Rect_new(r.left + d[1], r.top + d[2], r.right + d[1], r.bottom + d[2])

Rect_join2(a, b) ==
  IF Rect_is_empty(b) THEN a
  ELSE IF Rect_is_empty(a) THEN b
  ELSE Rect_new(IF a.left < b.left THEN a.left ELSE b.left,
                IF a.top < b.top THEN a.top ELSE b.top,
                IF a.right > b.right THEN a.right ELSE b.right,
                IF a.bottom > b.bottom THEN a.bottom ELSE b.bottom)

RECURSIVE join_all(_, _)

\* line_rects.iter().fold((Rect::new_empty(), 0), ...): the union of the rects
join_all(rects, union) ==
  IF rects = <<>> THEN union
  ELSE join_all(Tail(rects), Rect_join2(union, Head(rects)))

\* measure_text() with no row for the run when there are lines
measure_text_lines_only(c, text, width, typography) ==
  [k \in 1 .. Len(typeset(c, text, width, paint_for_fill(c))) |-> <<0, 0, 0, 0, 0, 0, 0>>]

\* Context2D::measure_text; typography is what get_baseline_offset answers for
\* each baseline and what get_alignment_factor answers
measure_text(c, text, width, typography) ==
  LET paragraph == typeset(c, text, width, paint_for_fill(c))
      metrics == font_metrics(c.state.char_style)
      offset == typography.baseline_offset[c.state.text_baseline]
      hang == typography.baseline_offset["Hanging"] - offset
      norm == typography.baseline_offset["Alphabetic"] - offset
      ideo == typography.baseline_offset["Ideographic"] - offset
      ascent == norm - metrics.ascent
      descent == metrics.descent - norm
      alignment == typography.alignment_factor
  IN IF Len(paragraph) = 0
     THEN << <<0, 0, 0, 0, 0, ascent, descent, ascent, descent, hang, norm, ideo>> >>
     ELSE
       LET origin == paragraph[1].baseline
           line_rects ==
             [k \in 1 .. Len(paragraph) |->
                LET line == paragraph[k]
                    baseline == line.baseline - origin
                    rect == Rect_new(line.left, baseline - line.ascent,
                                     line.width - line.left, baseline + line.descent)
                IN [rect |-> Rect_with_offset(rect, <<alignment * Rect_width(rect), offset>>),
                    range |-> string_idx_range(text, line.start_index,
                                               line.end_excluding_whitespaces),
                    baseline |-> baseline]]
           box == join_all([k \in 1 .. Len(line_rects) |-> line_rects[k].rect],
                           Rect_new_empty)
       IN << <<Rect_width(box), box.left, box.right, 0 - box.top, box.bottom,
               ascent, descent, ascent, descent, hang, norm, ideo>> >>
          \o [k \in 1 .. Len(line_rects) |->
                <<line_rects[k].rect.left, line_rects[k].rect.top,
                  Rect_width(line_rects[k].rect), Rect_height(line_rects[k].rect),
                  line_rects[k].baseline, line_rects[k].range.start,
                  line_rects[k].range.end>>]

\* ------------------------------------------------------------------ clearing, drawing text
\* Context2D::clear_rect: the rectangle drawn with BlendMode::Clear, straight
\* onto the canvas
clear_rect(c, rect) ==
  LET paint == [Paint_default EXCEPT !.style = "Fill", !.blend = "Clear"]
  IN with_canvas(c, canvas_draw_rect(c.recorder, rect, paint))

\* paragraph.get_rects_for_range(0 .. text.len()): the box of each visual line
get_rects_for_range(paragraph) ==
  [k \in 1 .. Len(paragraph) |->
     Rect_new(paragraph[k].left, paragraph[k].baseline - paragraph[k].ascent,
              paragraph[k].left + paragraph[k].width,
              paragraph[k].baseline + paragraph[k].descent)]

\* Rect::outset
Rect_outset(r, d) == Rect_new(r.left - d, r.top - d, r.right + d, r.bottom + d)

\* paragraph.paint(canvas, (0, 0)) recorded and finished as a picture culled to
\* bounds: every line inks its box with the foreground paint
Paragraph_paint(paragraph, foreground, cull) ==
  LET boxes == get_rects_for_range(paragraph)
  IN [cull |-> cull,
      cmds |-> [k \in 1 .. Len(boxes) |->
                  [op |-> "draw_rect", geom |-> CellsOf(boxes[k]),
                   paint |-> Some(foreground), pict |-> None,
                   ctm |-> Matrix_new_identity, clip |-> CellsOf(cull)]]]

\* draw_picture(pict, Some(matrix), paint): the picture as it plays under matrix
Picture_under(pict, matrix) ==
  [cull |-> Rect_with_offset(pict.cull, <<matrix.tx, matrix.ty>>),
   cmds |-> [k \in 1 .. Len(pict.cmds) |->
               [pict.cmds[k] EXCEPT !.ctm = Matrix_concat(matrix, @),
                                    !.clip = MapRegion(matrix, @)]]]

\* Context2D::draw_text; typography is what get_baseline_offset answers for
\* each baseline and what get_alignment_factor answers
draw_text(c, text, x, y, width, paint, typography) ==
  LET galley == IF width.none THEN GALLEY ELSE width.some
      text_paint == [paint EXCEPT !.blend = "SrcOver"]
      paragraph == typeset(c, text, galley, text_paint)
      offset == typography.baseline_offset[c.state.text_baseline]
      alphabetic_baseline == IF Len(paragraph) = 0 THEN 0 ELSE paragraph[1].baseline
      point == <<x + galley * typography.alignment_factor,
                 y + offset - alphabetic_baseline>>
      text_bounds == Rect_outset(join_all(get_rects_for_range(paragraph), Rect_new_empty),
                                 paint.stroke_width)
      pict == Paragraph_paint(paragraph, text_paint, text_bounds)
      position == Matrix_translate(point)
  IN render_to_canvas(c, paint,
                      [op |-> "draw_picture", geom |-> {},
                       pict |-> Some(Picture_under(pict, position))])

\* ------------------------------------------------------------------ gradient and pattern styles
\* A host value is the object the caller holds: a CanvasGradient or a
\* CanvasPattern wrapping a native shader source, or a colour.
JsCanvasGradient(g) == [class |-> "CanvasGradient", native |-> g]

JsCanvasPattern(p) == [class |-> "CanvasPattern", native |-> p]

JsColor(color) == [class |-> "color", native |-> color]

JsUndefined == [class |-> "undefined", native |-> "undefined"]

\* fetch_ref's or_throw when the queue is not an array
Throw == [class |-> "throw", native |-> "TypeError"]

Dye_Gradient(g) == [tag |-> "Gradient", shader |-> g]

Dye_Pattern(p) == [tag |-> "Pattern", shader |-> p]

\* the queue Dye::new and Dye::value use for a paint style
ShaderQueue(style) == IF style = "Fill" THEN "fillShader" ELSE "strokeShader"

\* stash_ref(): the queue, created when absent, gets the length depth + 1 and
\* obj at index depth; q holds both queues, an element i of the array being
\* queue[i + 1], and the elements a longer length adds being undefined
stash_ref(c, q, queue_name, obj) ==
  LET queue == IF q[queue_name].none THEN <<>> ELSE q[queue_name].some
      depth == Len(c.stack)
      len   == depth + 1
      sized == [i \in 1 .. len |-> IF i <= Len(queue) THEN queue[i] ELSE JsUndefined]
  IN [q EXCEPT ![queue_name] = Some([sized EXCEPT ![depth + 1] = obj])]

\* fetch_ref(): the element at index min(depth, length - 1)
fetch_ref(c, q, queue_name) ==
  IF q[queue_name].none THEN Throw
  ELSE LET queue == q[queue_name].some
           len   == Len(queue)
           depth == Len(c.stack)
           idx   == IF depth < len - 1 THEN depth ELSE len - 1
       IN IF idx + 1 \in 1 .. len THEN queue[idx + 1] ELSE JsUndefined

\* Dye::new: the dye for a host value, if any, and the queues afterwards
Dye_new(c, q, value, style) ==
  LET stash == ShaderQueue(style)
  IN CASE value.class = "CanvasGradient" ->
            [refs |-> stash_ref(c, q, stash, value), dye |-> Some(Dye_Gradient(value.native))]
       [] value.class = "CanvasPattern" ->
            [refs |-> stash_ref(c, q, stash, value), dye |-> Some(Dye_Pattern(value.native))]
       [] OTHER ->
            [refs |-> q,
             dye |-> IF value.class = "color" THEN Some(Dye_Color(value.native)) ELSE None]

\* Dye::value: what reading the style back gives the caller
Dye_value(dye, c, q, style) ==
  LET cache == ShaderQueue(style)
  IN CASE dye.tag = "Gradient" -> fetch_ref(c, q, cache)
       [] dye.tag = "Pattern"  -> fetch_ref(c, q, cache)
       [] dye.tag = "Color"    -> JsColor(dye.color)

\* ------------------------------------------------------------------ inputs
\* canvas sizes: one row, and a square
Sizes == {<<MaxDim, 1>>, <<MaxDim, MaxDim>>}

RectA == Rect_new(0, 0, 1, 1)

RectB == Rect_new(MaxDim - 1, 0, MaxDim, 1)

RectRow == Rect_new(0, 0, MaxDim, 1)

Translations == {Matrix_translate(<<t, 0>>) : t \in 0 .. MaxShift}

\* the paths handed to clip_path: none (the current path), the empty path,
\* two disjoint rectangles, and the top row traced over its first cell twice
ClipPaths ==
  {None, Some(Path_new), Some(Path_of_rect(RectA)), Some(Path_of_rect(RectB)),
   Some(Path_of_rects(RectRow, RectA))}

FillTypes == {"Winding", "EvenOdd"}

BlendModes == {"SrcOver", "Xor", "SrcIn", "SrcOut", "DstIn", "DstOut", "DstATop", "Src"}

\* ------------------------------------------------------------------ the state machine
Ctx ==
  [bounds |-> bounds, recorder |-> recorder, state |-> state, stack |-> stack,
   path |-> path, fault |-> "none"]

\* an operation took the context to c; the history moves on
Commit(c, name, arg, out) ==
  /\ ops < budget
  /\ budget' = budget
  /\ refs' = refs
  /\ bounds' = c.bounds
  /\ recorder' = c.recorder
  /\ state' = c.state
  /\ stack' = c.stack
  /\ path' = c.path
  /\ fault' = c.fault
  /\ ops' = ops + 1
  /\ last' = [op |-> name, arg |-> arg, out |-> out, pre |-> Ctx, saved |-> saved]
  /\ prev' = last

\* the context after construction, for a canvas of either size
Init ==
  /\ \E sz \in Sizes :
       LET c == Context2D_new(Rect_from_size(sz[1], sz[2]))
       IN /\ bounds = c.bounds
          /\ recorder = c.recorder
          /\ state = c.state
          /\ stack = c.stack
          /\ path = c.path
          /\ fault = c.fault
  /\ refs = [fillShader |-> None, strokeShader |-> None]
  /\ budget = MaxOps
  /\ ops = 0
  /\ saved = <<>>
  /\ last = [op |-> "new", arg |-> None, out |-> None, pre |-> None, saved |-> <<>>]
  /\ prev = [op |-> "none", arg |-> None, out |-> None, pre |-> None, saved |-> <<>>]

\* the same context, with room for MaxStyleOps operations
InitStyle ==
  /\ LET c == Context2D_new(Rect_from_size(MaxDim, 1))
     IN /\ bounds = c.bounds
        /\ recorder = c.recorder
        /\ state = c.state
        /\ stack = c.stack
        /\ path = c.path
        /\ fault = c.fault
  /\ refs = [fillShader |-> None, strokeShader |-> None]
  /\ budget = MaxStyleOps
  /\ ops = 0
  /\ saved = <<>>
  /\ last = [op |-> "new", arg |-> None, out |-> None, pre |-> None, saved |-> <<>>]
  /\ prev = [op |-> "none", arg |-> None, out |-> None, pre |-> None, saved |-> <<>>]

\* save()
Save ==
  /\ Commit(push(Ctx), "save", None, None)
  /\ saved' = Append(saved, [state |-> state, depth |-> Len(stack)])

\* restore()
Restore ==
  /\ Commit(pop(Ctx), "restore", None, None)
  /\ saved' = IF saved = <<>> THEN saved ELSE SubSeq(saved, 1, Len(saved) - 1)

\* a transform change (translate, setTransform, resetTransform, ...) giving m
WithMatrix(m) ==
  /\ Commit(with_matrix(Ctx, m), "with_matrix", m, None)
  /\ UNCHANGED saved

\* clip(), with the rule and either a given path or the current path
ClipPath(p, rule) ==
  /\ Commit(clip_path(Ctx, p, rule), "clip_path", [path |-> p, rule |-> rule], None)
  /\ UNCHANGED saved

\* the canvas's width or height was assigned
Resize(w, h) ==
  /\ Commit(resize(Ctx, w, h), "resize", [w |-> w, h |-> h], None)
  /\ saved' = <<>>

\* rect(): a rectangle is appended to the current path under the current transform
AddRect(rc) ==
  /\ Commit([Ctx EXCEPT !.path.one = @ \cup MapRegion(state.matrix, CellsOf(rc))],
            "rect", rc, None)
  /\ UNCHANGED saved

\* globalCompositeOperation = mode
SetCompositeOperation(mode) ==
  /\ Commit([Ctx EXCEPT !.state.global_composite_operation = mode,
                        !.state.paint.blend = mode],
            "set_globalCompositeOperation", mode, None)
  /\ UNCHANGED saved

\* shadowColor = color
SetShadowColor(color) ==
  /\ Commit([Ctx EXCEPT !.state.shadow_color = color], "set_shadowColor", color, None)
  /\ UNCHANGED saved

\* shadowBlur = blur
SetShadowBlur(blur) ==
  /\ Commit([Ctx EXCEPT !.state.shadow_blur = blur], "set_shadowBlur", blur, None)
  /\ UNCHANGED saved

\* shadowOffsetX = x
SetShadowOffsetX(x) ==
  /\ Commit([Ctx EXCEPT !.state.shadow_offset[1] = x], "set_shadowOffsetX", x, None)
  /\ UNCHANGED saved

\* globalAlpha = a
SetGlobalAlpha(a) ==
  /\ Commit([Ctx EXCEPT !.state.global_alpha = a], "set_globalAlpha", a, None)
  /\ UNCHANGED saved

\* fillStyle = a colour
SetFillStyle(color) ==
  /\ Commit([Ctx EXCEPT !.state.fill_style = Dye_Color(color)], "set_fillStyle", color, None)
  /\ UNCHANGED saved

\* fillRect(rect)
DrawRect(rc) ==
  /\ Commit(draw_rect(Ctx, rc, paint_for_fill(Ctx)), "draw_rect",
            [rect |-> rc, paint |-> paint_for_fill(Ctx)], None)
  /\ UNCHANGED saved

\* a buffer the caller supplies, of the given size and filled with one colour
Buffers(w, h) == {[p \in CellsOf(Rect_from_size(w, h)) |-> c] : c \in {TRANSPARENT, GREY}}

\* getImageData(origin, size) into a buffer the caller supplies
GetPixels(buffer, origin, w, h) ==
  /\ LET got == get_pixels(Ctx, buffer, origin, w, h)
     IN Commit(got.ctx, "get_pixels",
               [buffer |-> buffer, origin |-> origin, w |-> w, h |-> h],
               Some(got.out))
  /\ UNCHANGED saved

\* fill(): the current path is drawn with the fill paint
DrawPath ==
  /\ Commit(draw_path(Ctx, paint_for_fill(Ctx)), "draw_path",
            [paint |-> paint_for_fill(Ctx)], None)
  /\ UNCHANGED saved

\* a point is mapped to local coordinates
InLocalCoordinates(pt) ==
  /\ Commit(Ctx, "in_local_coordinates", [point |-> pt],
            Some(in_local_coordinates(Ctx, pt[1], pt[2])))
  /\ UNCHANGED saved

\* isPointInPath() / isPointInStroke() on a path the caller holds
HitTestPath(p, pt, rule, style, traceable) ==
  /\ LET hit == hit_test_path(Ctx, p, pt, rule, style, traceable)
     IN Commit(hit.ctx, "hit_test_path",
               [path |-> p, point |-> pt, rule |-> rule, style |-> style,
                traceable |-> traceable],
               Some([path |-> hit.path, point |-> hit.point, is_in |-> hit.is_in]))
  /\ UNCHANGED saved

\* the paths and rules of the hit tests: a rule that differs from the path's own
HitPaths ==
  {[path |-> Path_set_fill_type(Path_of_rects(RectRow, RectA), "EvenOdd"), rule |-> None],
   [path |-> Path_of_rects(RectRow, RectA), rule |-> Some("EvenOdd")]}

\* fill or stroke, and for a stroke whether tracing its outline succeeds
HitStyles ==
  {[style |-> "Fill", traceable |-> TRUE], [style |-> "Stroke", traceable |-> TRUE],
   [style |-> "Stroke", traceable |-> FALSE]}

\* putImageData(): pixel data pasted onto the canvas
BlitPixels(buffer, info, src_rect, dst_rect) ==
  /\ Commit(blit_pixels(Ctx, buffer, info, src_rect, dst_rect), "blit_pixels",
            [buffer |-> buffer, info |-> info, src |-> src_rect, dst |-> dst_rect], None)
  /\ UNCHANGED saved

\* drawImage() of an image, which may be absent
DrawImage(img, src_rect, dst_rect) ==
  /\ Commit(draw_image(Ctx, img, src_rect, dst_rect), "draw_image",
            [img |-> img, src |-> src_rect, dst |-> dst_rect], None)
  /\ UNCHANGED saved

\* drawCanvas() of another canvas's drawable, which may be absent; the
\* raster surface for its shadow may fail to be allocated
DrawDrawable(drobble, src_rect, dst_rect, allocated) ==
  /\ Commit(draw_drawable(Ctx, drobble, src_rect, dst_rect, allocated), "draw_drawable",
            [drobble |-> drobble, src |-> src_rect, dst |-> dst_rect,
             allocated |-> allocated], None)
  /\ UNCHANGED saved

\* pixel data of one grey pixel
GreyData == [p \in CellsOf(RectA) |-> GREY]

\* the image infos given with the data: one pixel, and an empty size
Infos == {[w |-> 1, h |-> 1], [w |-> 0, h |-> 1]}

\* another canvas's drawable: one black cell
DrawableA ==
  [cull |-> RectA,
   cmds |-> canvas_draw_rect(begin_recording(RectA), RectA, Paint_default).cmds]

\* filter = text, which the caller has parsed into the descriptors specs
SetFilter(filter_text, specs) ==
  /\ ops < MaxSets
  /\ Commit(set_filter(Ctx, filter_text, specs), "set_filter",
            [text |-> filter_text, specs |-> specs], None)
  /\ UNCHANGED saved

\* filter descriptors: two known effects, a drop shadow and an unknown name
Descriptors ==
  {[tag |-> "Plain", name |-> "blur", value |-> Unit],
   [tag |-> "Plain", name |-> "brightness", value |-> 2 * Unit],
   [tag |-> "Plain", name |-> "bogus", value |-> Unit],
   [tag |-> "Shadow", offset |-> <<1, 0>>, blur |-> 0, color |-> GREY]}

\* the descriptor lists of up to MaxSpecs descriptors
SpecLists == UNION {[1 .. n -> Descriptors] : n \in 0 .. MaxSpecs}

\* the amounts of the one-effect filters: negative, zero, fractions, one,
\* more than one, and very large
Amounts == {0 - Unit, 0, 1, 2, 3, Unit, Unit + 2, 2 * Unit, 1000 * Unit}

\* the one-effect filters with a colour matrix or a lookup table
ParamLists ==
  {<<[tag |-> "Plain", name |-> n, value |-> v]>> :
     n \in {"brightness", "contrast", "invert", "opacity", "saturate"},
     v \in Amounts}

\* textWrap = wrap
SetTextWrap(wrap) ==
  /\ Commit([Ctx EXCEPT !.state.text_wrap = wrap], "set_textWrap", wrap, None)
  /\ UNCHANGED saved

\* measureText(text), at the galley width
MeasureText(text, typography) ==
  /\ Commit(Ctx, "measure_text", [text |-> text, typography |-> typography],
            Some(measure_text(Ctx, text, GALLEY, typography)))
  /\ UNCHANGED saved

\* the texts measured: up to MaxText characters, letters and newlines
Texts == UNION {[1 .. n -> {"a", "\n"}] : n \in 0 .. MaxText}

\* two answers of the typography helpers: no offsets and left alignment, and
\* offsets with right alignment
Typographies ==
  {[baseline_offset |-> [b \in {"Alphabetic", "Hanging", "Ideographic"} |-> 0],
    alignment_factor |-> 0],
   [baseline_offset |-> [b \in {"Alphabetic", "Hanging", "Ideographic"} |->
                           IF b = "Alphabetic" THEN 1 ELSE IF b = "Hanging" THEN 7 ELSE 0 - 2],
    alignment_factor |-> 1]}

\* a snapshot of the recording as a picture
GetPicture(cull) ==
  /\ LET got == get_picture(Ctx, cull)
     IN Commit(got.ctx, "get_picture", [cull |-> cull], got.out)
  /\ UNCHANGED saved

\* a snapshot of the recording as a drawable
GetDrawable ==
  /\ LET got == get_drawable(Ctx)
     IN Commit(got.ctx, "get_drawable", None, got.out)
  /\ UNCHANGED saved

\* clearRect(rect)
ClearRect(rc) ==
  /\ Commit(clear_rect(Ctx, rc), "clear_rect", [rect |-> rc], None)
  /\ UNCHANGED saved

\* fillText(text, x, y), at the galley width
DrawText(text, x, y, typography) ==
  /\ Commit(draw_text(Ctx, text, x, y, None, paint_for_fill(Ctx), typography), "draw_text",
            [text |-> text, x |-> x, y |-> y, typography |-> typography], None)
  /\ UNCHANGED saved

\* no baseline offsets and left alignment
TypographyLeft ==
  [baseline_offset |-> [b \in {"Alphabetic", "Hanging", "Ideographic"} |-> 0],
   alignment_factor |-> 0]

\* fillStyle = value or strokeStyle = value: Dye::new stashes a gradient or
\* pattern object, and the dye it makes, if any, becomes the State's
AssignStyle(style, value) ==
  /\ LET made == Dye_new(Ctx, refs, value, style)
         c == IF made.dye.none THEN Ctx
              ELSE IF style = "Fill" THEN [Ctx EXCEPT !.state.fill_style = made.dye.some]
              ELSE [Ctx EXCEPT !.state.stroke_style = made.dye.some]
     IN /\ ops < budget
        /\ bounds' = c.bounds
        /\ recorder' = c.recorder
        /\ state' = c.state
        /\ stack' = c.stack
        /\ path' = c.path
        /\ fault' = c.fault
        /\ refs' = made.refs
        /\ budget' = budget
        /\ ops' = ops + 1
        /\ last' = [op |-> "set_style", arg |-> [style |-> style, value |-> value],
                    out |-> None, pre |-> Ctx, saved |-> saved]
        /\ prev' = last
  /\ UNCHANGED saved

\* the fillStyle or strokeStyle getter: Dye::value of the State's dye
ReadStyle(style) ==
  /\ Commit(Ctx, "get_style", [style |-> style],
            Some(Dye_value(IF style = "Fill" THEN state.fill_style ELSE state.stroke_style,
                           Ctx, refs, style)))
  /\ UNCHANGED saved

\* the host values assigned: two gradients, a pattern and a colour
StyleValues ==
  {JsCanvasGradient("g1"), JsCanvasGradient("g2"), JsCanvasPattern("p1"), JsColor(RED)}

\* the save/restore stack with transform, clip and style changes
Next ==
  \/ Save
  \/ Restore
  \/ \E m \in Translations : WithMatrix(m)
  \/ \E p \in ClipPaths, rule \in FillTypes : ClipPath(p, rule)
  \/ \E sz \in Sizes : Resize(sz[1], sz[2])
  \/ AddRect(RectA)
  \/ \E a \in {0, 1} : SetGlobalAlpha(a)

Spec == Init /\ [][Next]_vars

\* drawing, resizing and reading pixels back
NextResize ==
  \/ Save
  \/ AddRect(RectA)
  \/ \E m \in Translations : WithMatrix(m)
  \/ \E rc \in {RectA, RectRow} : DrawRect(rc)
  \/ \E sz \in Sizes : Resize(sz[1], sz[2])
  \/ \E sz \in Sizes : \E b \in Buffers(sz[1], sz[2]) : GetPixels(b, <<0, 0>>, sz[1], sz[2])

SpecResize == Init /\ [][NextResize]_vars

\* filled rectangles under every blend mode, shadow, alpha, transform and clip
NextRender ==
  \/ \E mode \in BlendModes : SetCompositeOperation(mode)
  \/ SetShadowColor(GREY)
  \/ SetShadowBlur(1)
  \/ SetShadowOffsetX(1)
  \/ SetGlobalAlpha(0)
  \/ SetFillStyle(RED)
  \/ \E m \in Translations : WithMatrix(m)
  \/ ClipPath(Some(Path_of_rect(RectA)), "Winding")
  \/ \E rc \in {RectA, RectRow} : DrawRect(rc)

SpecRender == Init /\ [][NextRender]_vars

\* paths and point queries under invertible and singular transforms
NextPath ==
  \/ Save
  \/ \E m \in Translations \cup {Matrix_singular} : WithMatrix(m)
  \/ AddRect(RectA)
  \/ DrawPath
  \/ \E rule \in FillTypes : ClipPath(None, rule)
  \/ \E pt \in {<<0, 0>>, <<1, 0>>} : InLocalCoordinates(pt)
  \/ \E h \in HitPaths, pt \in {<<0, 0>>, <<1, 0>>}, st \in HitStyles :
       HitTestPath(h.path, pt, h.rule, st.style, st.traceable)

SpecPath == Init /\ [][NextPath]_vars

\* images, drawables and pixel data drawn in every State
NextImage ==
  \/ Save
  \/ \E m \in Translations : WithMatrix(m)
  \/ ClipPath(Some(Path_of_rect(RectB)), "Winding")
  \/ \E mode \in {"Src", "Xor"} : SetCompositeOperation(mode)
  \/ SetShadowColor(GREY)
  \/ SetShadowOffsetX(1)
  \/ SetGlobalAlpha(0)
  \/ \E info \in Infos, dst \in {RectA, RectB} : BlitPixels(GreyData, info, RectA, dst)
  \/ \E img \in {None, Image_from_raster_data([w |-> 1, h |-> 1], GreyData)} :
       DrawImage(img, RectA, RectB)
  \/ \E d \in {None, Some(DrawableA)}, allocated \in BOOLEAN :
       DrawDrawable(d, RectA, RectB, allocated)

SpecImage == Init /\ [][NextImage]_vars

\* filter lists set one after the other
NextFilter == \E specs \in SpecLists : SetFilter(specs, specs)

SpecFilter == Init /\ [][NextFilter]_vars

\* one-effect filters over a range of amounts
NextFilterParams == \E specs \in ParamLists : SetFilter(specs, specs)

SpecFilterParams == Init /\ [][NextFilterParams]_vars

\* texts measured with and without wrapping, after saves and draws
NextText ==
  \/ Save
  \/ DrawRect(RectA)
  \/ SetTextWrap(TRUE)
  \/ \E text \in Texts, ty \in Typographies : MeasureText(text, ty)

SpecText == Init /\ [][NextText]_vars

\* every operation that touches the canvas's transform
NextSync ==
  \/ Save
  \/ Restore
  \/ \E m \in Translations : WithMatrix(m)
  \/ Resize(MaxDim, 1)
  \/ ClipPath(Some(Path_of_rect(RectA)), "Winding")
  \/ \E cull \in {None, Some(RectA)} : GetPicture(cull)
  \/ GetDrawable
  \/ GetPixels(GreyData, <<0, 0>>, 1, 1)
  \/ SetCompositeOperation("Src")
  \/ SetShadowColor(GREY)
  \/ SetShadowOffsetX(1)
  \/ DrawRect(RectA)
  \/ BlitPixels(GreyData, [w |-> 1, h |-> 1], RectA, RectB)
  \/ DrawDrawable(Some(DrawableA), RectA, RectB, TRUE)

SpecSync == Init /\ [][NextSync]_vars

\* every drawing and read-back operation, in States that saves, transforms
\* (a singular one too), clips and shadows have prepared
NextDraw ==
  \/ Save
  \/ \E m \in {Matrix_translate(<<MaxShift, 0>>), Matrix_singular} : WithMatrix(m)
  \/ ClipPath(Some(Path_of_rect(RectRow)), "Winding")
  \/ SetShadowColor(GREY)
  \/ SetShadowOffsetX(1)
  \/ AddRect(RectA)
  \/ DrawRect(RectA)
  \/ ClearRect(RectA)
  \/ DrawPath
  \/ DrawImage(Image_from_raster_data([w |-> 1, h |-> 1], GreyData), RectA, RectB)
  \/ \E d \in {None, Some(DrawableA)}, allocated \in BOOLEAN :
       DrawDrawable(d, RectA, RectA, allocated)
  \/ \E text \in {<<"a">>, <<"a", "\n">>} : DrawText(text, 0, 0, TypographyLeft)
  \/ \E info \in Infos : BlitPixels(GreyData, info, RectA, RectB)
  \/ GetPixels(GreyData, <<0, 0>>, 1, 1)
  \/ GetPicture(None)
  \/ GetDrawable

SpecDraw == Init /\ [][NextDraw]_vars

\* a cull rectangle just off the right edge of the canvas
CullOff == Rect_new(MaxDim, 0, MaxDim + 1, 1)

\* draws with snapshots of every kind taken between them
NextSnapshot ==
  \/ Save
  \/ Restore
  \/ \E m \in Translations : WithMatrix(m)
  \/ ClipPath(Some(Path_of_rect(RectRow)), "Winding")
  \/ SetFillStyle(RED)
  \/ \E rc \in {RectA, RectB} : DrawRect(rc)
  \/ ClearRect(RectA)
  \/ \E cull \in {None, Some(RectA), Some(CullOff)} : GetPicture(cull)
  \/ GetDrawable
  \/ GetPixels(GreyData, <<0, 0>>, 1, 1)

SpecSnapshot == Init /\ [][NextSnapshot]_vars

\* saves, restores, style assignments and style reads
NextStyle ==
  \/ Save
  \/ Restore
  \/ \E value \in StyleValues : AssignStyle("Fill", value)
  \/ AssignStyle("Stroke", JsCanvasGradient("g1"))
  \/ \E style \in {"Fill", "Stroke"} : ReadStyle(style)

SpecStyle == InitStyle /\ [][NextStyle]_vars

\* ------------------------------------------------------------------ the claims
\* the context as it is now
Now == [Ctx EXCEPT !.fault = fault]

\* C1: restore() on a non-empty stack sets the State to exactly the value it
\* had at the matching save(), whatever changed it in between, and takes the
\* stack back to the depth of that save(); the depth always equals the number
\* of save() calls not yet restored.  So n save() calls followed by n
\* restore() calls leave the State and the depth as they were.
C1_RestoreReturnsSavedState ==
  /\ Len(stack) = Len(saved)
  /\ (last.op = "restore" /\ last.saved # <<>>) =>
        LET mark == last.saved[Len(last.saved)]
        IN state = mark.state /\ Len(stack) = mark.depth

\* a restore() of the inner of two save() calls, the State having changed since
C1_Witness ==
  /\ last.op = "restore"
  /\ Len(last.saved) = 2
  /\ last.pre.state # state
  /\ last.pre.state.clip # state.clip

\* C2: restore() on an empty stack changes nothing: State, stack, path,
\* bounds, the canvas's transform, clip and recorded commands, and no fault.
C2_RestoreOnEmptyIsNoOp ==
  (last.op = "restore" /\ last.pre.stack = <<>>) => Now = last.pre

\* a restore() on an empty stack while the canvas is translated and clipped
C2_Witness ==
  /\ last.op = "restore"
  /\ last.pre.stack = <<>>
  /\ Top(recorder).matrix # Matrix_new_identity
  /\ Top(recorder).clip # CellsOf(bounds)

\* the cells of the canvas the State's logical clip admits: all of them for
\* an empty clip path, as pop() and get_picture() read it
Admitted(c) ==
  IF Path_is_empty(c.state.clip) THEN CellsOf(c.bounds)
  ELSE CellsOf(c.bounds) \cap MapRegion(c.state.matrix, Region(c.state.clip))

\* C3: the region the logical clip admits after a clip_path call is a subset
\* of the region it admitted before the call, also when the new clip is
\* disjoint from the existing one (stated for a new clip that is a given path
\* with a non-empty region).
C3_ClipNarrows ==
  (/\ last.op = "clip_path"
   /\ ~last.arg.path.none
   /\ Region(Path_set_fill_type(last.arg.path.some, last.arg.rule)) # {})
  => Admitted(Now) \subseteq Admitted(last.pre)

\* the logical clip, the transform it is applied under, and the canvas's
\* transform and device clip
ClipCondition(c) ==
  [unclipped |-> Path_is_empty(c.state.clip),
   logical   |-> Region(c.state.clip),
   matrix    |-> c.state.matrix,
   surface   |-> Top(c.recorder)]

\* C4: clip_path(A) then clip_path(B), for non-empty regions A and B, leaves
\* the logical clip and the canvas's clip as one clip_path call with the
\* region A intersect B does.
C4_TwoClipsAsOne ==
  (/\ last.op = "clip_path" /\ prev.op = "clip_path"
   /\ ~prev.arg.path.none /\ ~last.arg.path.none
   /\ Region(Path_set_fill_type(prev.arg.path.some, prev.arg.rule)) # {}
   /\ Region(Path_set_fill_type(last.arg.path.some, last.arg.rule)) # {})
  => LET A  == Path_set_fill_type(prev.arg.path.some, prev.arg.rule)
         B  == Path_set_fill_type(last.arg.path.some, last.arg.rule)
         AB == Path_op_Intersect(A, B).some
     IN ClipCondition(Now) = ClipCondition(clip_path(prev.pre, Some(AB), last.arg.rule))

\* C5: after save() then restore(), the canvas's transform and device clip are
\* what they were just before the save(), also when the transform changed
\* after the clip was set (stated for a canvas whose device clip is not empty
\* before the save()).
C5_RestoreRederivesSurface ==
  (last.op = "restore" /\ prev.op = "save" /\ Top(prev.pre.recorder).clip # {})
  => Top(recorder) = Top(prev.pre.recorder)

\* C6: resize(w, h) is a hard reset from any state: afterwards the bounds are
\* w by h at the origin, the current path is empty, the stack is empty, the
\* State is the default State, and the recording holds no drawing command
\* (the canvas is back at the identity transform, clipped to the new bounds).
C6_ResizeIsHardReset ==
  last.op = "resize" =>
    /\ bounds = Rect_new(0, 0, last.arg.w, last.arg.h)
    /\ Path_is_empty(path) /\ path = Path_new
    /\ Len(stack) = 0
    /\ state = State_default
    /\ recorder.active /\ recorder.cmds = <<>>
    /\ Top(recorder) = [matrix |-> Matrix_new_identity, clip |-> CellsOf(bounds)]
    /\ fault = "none"

\* a resize() to another size of a context with a saved State, a translated
\* State and something drawn
C6_Witness ==
  /\ last.op = "resize"
  /\ last.pre.bounds # bounds
  /\ last.pre.stack # <<>>
  /\ last.pre.state # State_default
  /\ last.pre.recorder.cmds # <<>>

\* C7: resize(w, h) immediately followed by get_pixels over the whole canvas
\* (origin (0, 0), size w by h) writes a buffer of w by h pixels, every one
\* of them fully transparent, whatever was drawn before and whatever the
\* buffer held.
C7_ResizeThenReadIsTransparent ==
  (/\ last.op = "get_pixels" /\ prev.op = "resize"
   /\ last.arg.origin = <<0, 0>>
   /\ last.arg.w = prev.arg.w /\ last.arg.h = prev.arg.h)
  => /\ DOMAIN last.out.some = CellsOf(Rect_from_size(prev.arg.w, prev.arg.h))
     /\ \A p \in DOMAIN last.out.some : last.out.some[p] = TRANSPARENT

\* such a read after something was drawn before the resize, into a buffer
\* that was not transparent
C7_Witness ==
  /\ last.op = "get_pixels" /\ prev.op = "resize"
  /\ last.arg.origin = <<0, 0>>
  /\ last.arg.w = prev.arg.w /\ last.arg.h = prev.arg.h
  /\ prev.pre.recorder.cmds # <<>>
  /\ last.arg.buffer \in Buffers(last.arg.w, last.arg.h)
  /\ \A p \in DOMAIN last.arg.buffer : last.arg.buffer[p] = GREY
  /\ \A p \in DOMAIN last.out.some : last.out.some[p] = TRANSPARENT

\* the commands the last operation added to the main recording
Added == SubSeq(recorder.cmds, Len(last.pre.recorder.cmds) + 1, Len(recorder.cmds))

\* the draw calls the closure of the last draw made: those recorded in the
\* offscreen layer if the main recording received a picture, else those on
\* the main recording
Calls ==
  IF Len(Added) = 1 /\ Added[1].op = "draw_picture" THEN Added[1].pict.some.cmds
  ELSE Added

\* a draw call made with a shadow paint
IsShadowCall(cmd) == ~cmd.paint.none /\ ~cmd.paint.some.image_filter.none

\* C8: a draw is isolated in a layer exactly under the six regional blend
\* modes.  Under those the main recording receives no call of the closure but
\* exactly one draw of a picture, at the identity transform, with the paint
\* of the draw call (its blend mode, and the fill alpha scaled by the global
\* alpha); the picture is culled to the canvas bounds and holds the shadow
\* call (if any) and then the content call, all with source-over blending.
\* Under every other mode the closure's calls go to the main recording, the
\* content with the paint of the draw call, and no picture is recorded.
C8_IsolationExactlyForRegional ==
  last.op = "draw_rect" =>
    LET c == last.pre
        mode == c.state.global_composite_operation
        shape == CellsOf(last.arg.rect)
    IN /\ recorder.canvas = c.recorder.canvas
       /\ IF mode \in {"SrcIn", "SrcOut", "DstIn", "DstOut", "DstATop", "Src"}
          THEN /\ Len(Added) = 1
               /\ Added[1].op = "draw_picture"
               /\ Added[1].paint = Some(last.arg.paint)
               /\ Added[1].paint.some.color.a
                    = c.state.fill_style.color.a * c.state.global_alpha
               /\ Added[1].ctm = Matrix_new_identity
               /\ Added[1].pict.some.cull = c.bounds
               /\ LET inner == Added[1].pict.some.cmds
                  IN /\ Len(inner) \in {1, 2}
                     /\ \A i \in 1 .. Len(inner) :
                          /\ inner[i].op = "draw_rect" /\ inner[i].geom = shape
                          /\ inner[i].paint.some.blend = "SrcOver"
                          /\ inner[i].clip = CellsOf(c.bounds)
                          /\ IsShadowCall(inner[i]) <=> (i = 1 /\ Len(inner) = 2)
                     /\ inner[Len(inner)].ctm = c.state.matrix
          ELSE /\ Len(Added) \in {1, 2}
               /\ \A i \in 1 .. Len(Added) :
                    /\ Added[i].op = "draw_rect" /\ Added[i].geom = shape
                    /\ IsShadowCall(Added[i]) <=> (i = 1 /\ Len(Added) = 2)
               /\ Added[Len(Added)].paint = Some(last.arg.paint)
               /\ Added[Len(Added)].ctm = c.state.matrix

\* a fill under a regional mode with a shadow and a reduced global alpha: the
\* layer holds the shadow and the content
C8_Witness ==
  /\ last.op = "draw_rect"
  /\ last.pre.state.global_composite_operation \in {"SrcIn", "SrcOut", "DstIn", "DstOut", "DstATop", "Src"}
  /\ Len(Added) = 1 /\ Added[1].op = "draw_picture"
  /\ Len(Added[1].pict.some.cmds) = 2
  /\ last.pre.state.shadow_offset # <<0, 0>>

\* C10: a draw call makes a shadow call if and only if the shadow colour's
\* alpha is not zero and the blur or the offset is not zero: then the closure
\* is called twice, first with the shadow paint under the transform shifted
\* by the offset; otherwise paint_for_shadow gives no paint and the closure
\* is called exactly once, for the content.
C10_ShadowPassIff ==
  last.op = "draw_rect" =>
    LET c == last.pre
        visible == /\ c.state.shadow_color.a # 0
                   /\ (c.state.shadow_blur # 0 \/ c.state.shadow_offset # <<0, 0>>)
    IN /\ paint_for_shadow(c, last.arg.paint).none <=> ~visible
       /\ visible =>
            /\ Len(Calls) = 2
            /\ IsShadowCall(Calls[1]) /\ ~IsShadowCall(Calls[2])
            /\ Calls[1].paint.some.image_filter.some
                 = [kind |-> "drop_shadow_only", blur |-> c.state.shadow_blur,
                    color |-> c.state.shadow_color]
            /\ Calls[1].ctm = Matrix_concat(Matrix_translate(c.state.shadow_offset),
                                            c.state.matrix)
       /\ ~visible => (Len(Calls) = 1 /\ ~IsShadowCall(Calls[1]))

\* a fill with a shadow colour and an offset but no blur: the shadow call is made
C10_Witness ==
  /\ last.op = "draw_rect"
  /\ last.pre.state.shadow_color.a # 0
  /\ last.pre.state.shadow_blur = 0
  /\ last.pre.state.shadow_offset # <<0, 0>>
  /\ Len(Calls) = 2 /\ IsShadowCall(Calls[1])

\* the pixels of the whole canvas, as get_pixels reads them back
Content(c) ==
  get_pixels(c, [p \in CellsOf(c.bounds) |-> TRANSPARENT], <<0, 0>>,
             Rect_width(c.bounds), Rect_height(c.bounds)).out

\* C9 as the specification states it: under a regional blend mode, two
\* overlapping rectangles drawn one after the other leave the content that
\* one isolated picture holding both rectangles, composited with that mode
\* against the content before the first, would leave.
C9_TwoShapesAsOnePicture ==
  (/\ last.op = "draw_rect" /\ prev.op = "draw_rect"
   /\ last.pre.state.global_composite_operation \in BlendMode_regional
   /\ CellsOf(prev.arg.rect) \cap CellsOf(last.arg.rect) # {})
  => Content(Now)
       = Content(render_to_canvas(prev.pre, last.arg.paint,
                                  [op |-> "draw_rect", pict |-> None,
                                   geom |-> CellsOf(prev.arg.rect) \cup CellsOf(last.arg.rect)]))

\* C9: under a regional blend mode every draw call is composited on its own.
\* The content after the call is, on every pixel of the canvas inside the
\* clip, the blend under that mode of one isolated picture of what this call
\* drew (its shadow, if any, under its content, scaled by the alpha of the
\* call's paint) with the content before the call, also where the picture is
\* transparent; outside the clip the content is unchanged.  Shapes drawn by
\* two calls are so blended against the canvas one after the other.
C9_EachCallIsolated ==
  (last.op = "draw_rect" /\ last.pre.state.global_composite_operation \in BlendMode_regional)
  => LET c == last.pre
         before == Content(c)
         shape == CellsOf(last.arg.rect)
         body == MapRegion(c.state.matrix, shape)
         shade == IF c.state.shadow_color.a # 0
                     /\ (c.state.shadow_blur # 0 \/ c.state.shadow_offset # <<0, 0>>)
                  THEN MapRegion(Matrix_concat(Matrix_translate(c.state.shadow_offset),
                                               c.state.matrix), shape)
                  ELSE {}
         ink == c.state.paint.color
         picture == [p \in CellsOf(c.bounds) |->
                       IF p \in body THEN Pixel(ink.rgb, ink.a)
                       ELSE IF p \in shade
                            THEN Pixel(c.state.shadow_color.rgb,
                                       (c.state.shadow_color.a * ink.a) \div 255)
                            ELSE TRANSPARENT]
         alpha == last.arg.paint.color.a
     IN Content(Now) =
          [p \in CellsOf(c.bounds) |->
             IF p \in Top(c.recorder).clip
             THEN Blend(c.state.global_composite_operation,
                        Pixel(picture[p].rgb, (picture[p].a * alpha) \div 255),
                        before[p])
             ELSE before[p]]

\* two overlapping rectangles drawn by two calls under a regional mode, the
\* second call changing what the first left, away from what one picture of
\* both would leave
C9_Witness ==
  /\ last.op = "draw_rect" /\ prev.op = "draw_rect"
  /\ last.pre.state.global_composite_operation \in BlendMode_regional
  /\ CellsOf(prev.arg.rect) \cap CellsOf(last.arg.rect) # {}
  /\ Content(last.pre) # Content(prev.pre)
  /\ Content(Now) # Content(last.pre)
  /\ ~C9_TwoShapesAsOnePicture

\* C11 as the specification states it: draw_path, and clip_path clipping to
\* the current path, under a singular transform raise no fatal error and
\* leave the State, the stack and the recording made so far intact.
C11_SingularFailsSilently ==
  (/\ last.op = "draw_path" \/ (last.op = "clip_path" /\ last.arg.path.none)
   /\ Matrix_invert(last.pre.state.matrix).none)
  => /\ fault = "none"
     /\ state = last.pre.state
     /\ stack = last.pre.stack
     /\ SubSeq(recorder.cmds, 1, Len(last.pre.recorder.cmds)) = last.pre.recorder.cmds

\* C12: in_local_coordinates(x, y) gives the point mapped through the inverse
\* of the State's matrix when the matrix is invertible and (x, y) itself when
\* it is singular; hit_test_path tests containment at that point and raises
\* no error.
C12_PointQueryFallsBackToIdentity ==
  /\ last.op = "in_local_coordinates" =>
       LET m == last.pre.state.matrix
           pt == last.arg.point
       IN /\ m.s # 0 => last.out.some = <<pt[1] - m.tx, pt[2] - m.ty>>
          /\ m.s = 0 => last.out.some = pt
          /\ fault = "none"
  /\ last.op = "hit_test_path" =>
       LET m == last.pre.state.matrix
           pt == last.arg.point
           local == IF m.s # 0 THEN <<pt[1] - m.tx, pt[2] - m.ty>> ELSE pt
       IN /\ last.out.some.point = local
          /\ fault = "none"
          /\ last.arg.style = "Fill" =>
               (last.out.some.is_in <=>
                  local \in Region([last.arg.path EXCEPT !.fill =
                             IF last.arg.rule.none THEN "Winding" ELSE last.arg.rule.some]))

\* a point other than the origin queried under a singular transform
C12_Witness ==
  /\ last.op = "in_local_coordinates"
  /\ last.pre.state.matrix.s = 0
  /\ last.arg.point # <<0, 0>>
  /\ last.out.some = last.arg.point
  /\ prev.op = "hit_test_path" /\ prev.pre.state.matrix.s = 0

\* C13: hit_test_path leaves the caller's path with the fill rule it had, and
\* the path otherwise as it was, for a given or a defaulted rule and for
\* fill, stroke and a stroke whose tracing fails; the Context's State, stack,
\* path, bounds and recording are unchanged.
C13_HitTestMutatesNothing ==
  last.op = "hit_test_path" =>
    /\ last.out.some.path.fill = last.arg.path.fill
    /\ last.out.some.path = last.arg.path
    /\ Now = last.pre

\* a stroke hit test whose tracing fails, with a rule other than the path's own
C13_Witness ==
  /\ last.op = "hit_test_path"
  /\ last.arg.style = "Stroke" /\ ~last.arg.traceable
  /\ (IF last.arg.rule.none THEN "Winding" ELSE last.arg.rule.some) # last.arg.path.fill
  /\ last.pre.recorder.cmds # <<>>
  /\ last.pre.stack # <<>>

\* C14: blit_pixels pastes in any State: the clear and then the draw of the
\* destination rectangle are recorded at the identity transform, clipped only
\* to the canvas, with a default paint (the clear with blend mode Clear);
\* afterwards the State and the stack are what they were, and the canvas
\* carries the State's matrix and the State's clip applied under it.
C14_BlitIgnoresState ==
  (last.op = "blit_pixels" /\ last.arg.info.w > 0 /\ last.arg.info.h > 0) =>
    /\ Len(Added) = 2
    /\ \A i \in 1 .. 2 :
         /\ Added[i].op = "draw_image_rect"
         /\ Added[i].geom = CellsOf(last.arg.dst)
         /\ Added[i].ctm = Matrix_new_identity
         /\ Added[i].clip = CellsOf(bounds)
    /\ Added[1].paint = Some([Paint_default EXCEPT !.blend = "Clear"])
    /\ Added[2].paint = Some(Paint_default)
    /\ state = last.pre.state
    /\ stack = last.pre.stack
    /\ Len(recorder.canvas) = 2
    /\ Top(recorder).matrix = state.matrix
    /\ Top(recorder).clip =
         IF Path_is_empty(state.clip) THEN CellsOf(bounds)
         ELSE CellsOf(bounds) \cap MapRegion(state.matrix, Region(state.clip))

\* a paste while the State is translated, clipped away from the destination
\* and has a regional blend mode
C14_Witness ==
  /\ last.op = "blit_pixels" /\ last.arg.info.w > 0
  /\ state.matrix # Matrix_new_identity
  /\ ~Path_is_empty(state.clip)
  /\ CellsOf(last.arg.dst) \cap Top(last.pre.recorder).clip = {}
  /\ state.global_composite_operation = "Src"
  /\ Len(Added) = 2

\* C15 as the specification states it: when a resource cannot be resolved (an
\* absent image or drawable, pixel data that give no image, a raster surface
\* that cannot be allocated for a drawable's shadow) the operation records
\* nothing, raises no error and leaves State, stack and canvas as they were.
C15_FailureSkipsEntirely ==
  (\/ last.op = "draw_image" /\ last.arg.img.none
   \/ last.op = "blit_pixels" /\ Image_from_raster_data(last.arg.info, last.arg.buffer).none
   \/ last.op = "draw_drawable" /\ last.arg.drobble.none
   \/ /\ last.op = "draw_drawable" /\ ~last.arg.drobble.none
      /\ ~paint_for_shadow(last.pre, last.pre.state.paint).none
      /\ ~last.arg.allocated)
  => /\ Added = <<>>
     /\ fault = "none"
     /\ Now = last.pre

RECURSIVE ChainNodes(_)

\* the filters of a chain, innermost first, each without its input
ChainNodes(chain) ==
  IF chain.none THEN <<>>
  ELSE Append(ChainNodes(chain.some.input), [chain.some EXCEPT !.input = None])

\* the effect names set_filter knows
KnownEffects ==
  {"blur", "brightness", "contrast", "grayscale", "invert", "opacity", "saturate",
   "sepia", "hue-rotate"}

\* the descriptors of a list that are a drop shadow or name a known effect
Recognised(specs) ==
  SelectSeq(specs, LAMBDA d : d.tag = "Shadow" \/ d.name \in KnownEffects)

\* C16: the chain set_filter builds holds one filter per recognised
\* descriptor, in list order from the innermost outwards, each with the
\* chain of the descriptors before it as its input; descriptors with an
\* unknown name add nothing, so the chain is the one of the list without
\* them; the State's filter string is the given text, nothing else of the
\* Context changes and no fault is raised.
C16_FilterChainFoldsLeftToRight ==
  last.op = "set_filter" =>
    LET specs == last.arg.specs
        known == Recognised(specs)
        chain == state.paint.image_filter
    IN /\ ChainNodes(chain)
            = [i \in 1 .. Len(known) |->
                 [next_filter_onto(None, known[i]).some EXCEPT !.input = None]]
       /\ chain = set_filter(last.pre, last.arg.text, known).state.paint.image_filter
       /\ state.filter = last.arg.text
       /\ fault = "none"
       /\ Now = [last.pre EXCEPT !.state.paint.image_filter = chain,
                                 !.state.filter = last.arg.text]

\* a list of two different known filters around an unknown one, set over a
\* filter that was there before
C16_Witness ==
  /\ last.op = "set_filter"
  /\ Len(last.arg.specs) = 3
  /\ Len(Recognised(last.arg.specs)) = 2
  /\ last.arg.specs[2].tag = "Plain" /\ last.arg.specs[2].name \notin KnownEffects
  /\ last.arg.specs[1] # last.arg.specs[3]
  /\ ~last.pre.state.paint.image_filter.none

\* the colour matrix that changes no colour
IdentityColorMatrix ==
  LET one == MatrixScale * Unit
  IN << <<one, 0, 0, 0, 0>>, <<0, one, 0, 0, 0>>, <<0, 0, one, 0, 0>>, <<0, 0, 0, one, 0>> >>

\* C17: brightness(1), opacity(1) and saturate(1) give the identity colour
\* matrix; contrast(1) and invert(0) give a table mapping every i in 0..255
\* to i; for every amount the 256 entries of the contrast and invert tables
\* are in 0..255.
C17_IdentityParamsChangeNothing ==
  (last.op = "set_filter" /\ Len(last.arg.specs) = 1 /\ last.arg.specs[1].tag = "Plain") =>
    LET name == last.arg.specs[1].name
        value == last.arg.specs[1].value
        cf == state.paint.image_filter.some.filter
    IN /\ (name \in {"brightness", "opacity", "saturate"} /\ value = Unit)
            => (cf.kind = "matrix" /\ cf.rows = IdentityColorMatrix)
       /\ ((name = "contrast" /\ value = Unit) \/ (name = "invert" /\ value = 0))
            => (cf.kind = "table" /\ \A i \in 0 .. 255 : cf.r.some[i] = i)
       /\ name \in {"contrast", "invert"}
            => /\ cf.kind = "table" /\ cf.a.none
               /\ cf.r = cf.g /\ cf.g = cf.b
               /\ DOMAIN cf.r.some = 0 .. 255
               /\ \A i \in 0 .. 255 : cf.r.some[i] \in 0 .. 255

\* contrast(1) set after a contrast whose formula leaves 0..255 before the cast
C17_Witness ==
  /\ last.op = "set_filter" /\ Len(last.arg.specs) = 1
  /\ last.arg.specs[1].name = "contrast" /\ last.arg.specs[1].value = Unit
  /\ state.paint.image_filter.some.filter.r.some[200] = 200
  /\ prev.op = "set_filter" /\ prev.arg.specs[1].name = "contrast"
  /\ prev.arg.specs[1].value = 1000 * Unit
  /\ last.pre.state.paint.image_filter.some.filter.r.some[200] = 255

\* the number of visual lines of a text: none for an empty text, one when
\* wrapping is off, else one more than the newlines before its last character
VisualLines(text, wrap) ==
  IF text = <<>> THEN 0
  ELSE IF ~wrap THEN 1
  ELSE 1 + Cardinality({i \in 1 .. (Len(text) - 1) : text[i] = "\n"})

\* C18: measure_text returns 1 + L rows for a layout of L lines: a first row
\* of 12 values, then one row of 7 values per line, the lines in order from
\* the top; for a layout without lines it returns the one row whose first
\* five values are 0 and whose other values are ascent, descent, ascent,
\* descent, hanging, alphabetic and ideographic as derived from the State's
\* baseline.  It changes nothing of the Context.
C18_MeasureTextRows ==
  last.op = "measure_text" =>
    LET rows == last.out.some
        L == VisualLines(last.arg.text, last.pre.state.text_wrap)
        off == last.arg.typography.baseline_offset
        base == off[last.pre.state.text_baseline]
        norm == off["Alphabetic"] - base
        m == font_metrics(last.pre.state.char_style)
    IN /\ Len(rows) = 1 + L
       /\ Len(rows[1]) = 12
       /\ \A k \in 2 .. Len(rows) : Len(rows[k]) = 7
       /\ \A k \in 3 .. Len(rows) : rows[k][5] > rows[k - 1][5]
       /\ SubSeq(rows[1], 6, 12)
            = <<norm - m.ascent, m.descent - norm, norm - m.ascent, m.descent - norm,
                off["Hanging"] - base, norm, off["Ideographic"] - base>>
       /\ L = 0 => SubSeq(rows[1], 1, 5) = <<0, 0, 0, 0, 0>>
       /\ Now = last.pre

\* a wrapped text of two lines measured, and before it an empty text, on a
\* context with a saved State
C18_Witness ==
  /\ last.op = "measure_text"
  /\ Len(last.out.some) = 3
  /\ last.out.some[1][1] > 0
  /\ prev.op = "measure_text" /\ prev.arg.text = <<>>
  /\ Len(prev.out.some) = 1
  /\ last.pre.stack # <<>>

\* C19: after every operation the transform set on the main canvas is the
\* State's matrix: with_matrix puts the new matrix on the canvas in the same
\* step, restore, resize and the snapshots set it again, and the matrix of a
\* shadow pass, of a picture composite, of a paste or of a drawable is undone
\* before the operation returns.
C19_SurfaceMatrixIsStateMatrix ==
  /\ Top(recorder).matrix = state.matrix
  /\ last.op = "with_matrix" => Top(recorder).matrix = last.arg

\* a fill with a shadow pass, drawn under another matrix than the State's
\* translation, which the canvas carries again afterwards
C19_Witness ==
  /\ state.matrix # Matrix_new_identity
  /\ last.op = "draw_rect" /\ Len(Calls) = 2
  /\ Calls[1].ctm # state.matrix
  /\ Top(recorder).matrix = state.matrix

\* C20: a draw call with an active shadow calls the closure exactly twice:
\* first with the shadow paint (the content's paint with the shadow-only
\* filter) under translate(shadow offset) * matrix, then with the content
\* paint under the State's matrix, both in the direct branch and inside the
\* layer of the regional branch; the save around the shadow pass is restored,
\* so the content is drawn at the level and clip the canvas had before.
C20_ShadowBeforeContent ==
  (last.op = "draw_rect" /\ ~paint_for_shadow(last.pre, last.arg.paint).none) =>
    LET c == last.pre
        regional == c.state.global_composite_operation \in BlendMode_regional
        content == IF regional THEN [c.state.paint EXCEPT !.blend = "SrcOver"]
                   ELSE last.arg.paint
        level == IF regional THEN [matrix |-> c.state.matrix, clip |-> CellsOf(c.bounds)]
                 ELSE Top(c.recorder)
    IN /\ Len(Calls) = 2
       /\ Calls[1].paint.some =
            [content EXCEPT !.image_filter =
               Some([kind |-> "drop_shadow_only", blur |-> c.state.shadow_blur,
                     color |-> c.state.shadow_color])]
       /\ Calls[1].ctm = [s |-> c.state.matrix.s,
                          tx |-> c.state.matrix.tx + c.state.shadow_offset[1],
                          ty |-> c.state.matrix.ty + c.state.shadow_offset[2]]
       /\ Calls[2].paint.some = content
       /\ Calls[2].ctm = level.matrix
       /\ Calls[2].clip = level.clip /\ Calls[1].clip = level.clip
       /\ recorder.canvas = c.recorder.canvas

\* a fill with an offset shadow under a regional mode: two calls in the layer
C20_Witness ==
  /\ last.op = "draw_rect" /\ ~paint_for_shadow(last.pre, last.arg.paint).none
  /\ last.pre.state.shadow_offset # <<0, 0>>
  /\ last.pre.state.global_composite_operation \in BlendMode_regional
  /\ Len(Calls) = 2

\* the drawing and read-back operations
DrawOps ==
  {"draw_rect", "clear_rect", "draw_path", "draw_image", "draw_drawable", "draw_text",
   "blit_pixels", "get_pixels", "get_picture", "get_drawable"}

\* C21: every drawing and read-back operation (draw_rect, clear_rect,
\* draw_path, draw_image, draw_drawable, draw_text, blit_pixels, get_pixels,
\* get_picture, get_drawable) leaves the stack and the State exactly as they
\* were, on every path through it (absent drawable, rejected pixel data,
\* failed shadow surface, singular transform); and after draw_drawable has
\* drawn, the canvas's clip is the one the State alone gives, at the base
\* save depth: the clip to the destination rectangle is gone.
C21_DrawingLeavesStateAndStack ==
  last.op \in DrawOps =>
    /\ state = last.pre.state
    /\ stack = last.pre.stack
    /\ (last.op = "draw_drawable" /\ ~last.arg.drobble.none) =>
         /\ Top(recorder).clip = Top(resync(last.pre).recorder).clip
         /\ Len(recorder.canvas) = Len(last.pre.recorder.canvas)

\* a drawable was drawn, shadow and all, in a saved State, and cells outside
\* its destination rectangle can still be drawn on
C21_Witness ==
  /\ last.op = "draw_drawable"
  /\ ~last.arg.drobble.none
  /\ last.arg.allocated
  /\ ~paint_for_shadow(last.pre, last.pre.state.paint).none
  /\ last.pre.stack # <<>>
  /\ stack = last.pre.stack
  /\ ~(Top(recorder).clip \subseteq CellsOf(last.arg.dst))
  /\ Len(recorder.cmds) > Len(last.pre.recorder.cmds)

\* the operations that take a snapshot and restart the recording
SnapshotOps == {"get_picture", "get_drawable", "get_pixels"}

\* C22: taking a snapshot loses no content: after get_picture (whatever the
\* cull rectangle), get_drawable or get_pixels the restarted recording holds
\* the content the recording held before, so that whatever is read back
\* afterwards shows every earlier draw; and the canvas is left with the
\* State's transform and clip as pop() would put them.
C22_SnapshotKeepsContent ==
  last.op \in SnapshotOps =>
    /\ Content(Now) = Content(last.pre)
    /\ Top(recorder) = Top(resync(last.pre).recorder)

\* the save depth of the recording canvas after Context2D::new
BaseDepth == Len(Context2D_new(bounds).recorder.canvas)

\* C23: the recording canvas's save depth is the base depth 2 (the
\* recording's initial level plus one save) after construction and after
\* every operation, whatever the depth of the State stack: resize, restore
\* (reset_canvas), get_picture, get_drawable and get_pixels end at it, and
\* the saves made while drawing (shadow pass, layer compositing) are restored
\* before the draw returns.
C23_SurfaceAtBaseDepth ==
  /\ BaseDepth = 2
  /\ Len(recorder.canvas) = BaseDepth

\* a fill and its shadow were drawn with a State on the stack, and the canvas
\* is at depth 2 all the same
C23_Witness ==
  /\ last.op = "draw_rect"
  /\ ~paint_for_shadow(last.pre, last.arg.paint).none
  /\ Len(stack) = 1
  /\ Len(recorder.cmds) = Len(last.pre.recorder.cmds) + 2
  /\ Len(recorder.canvas) = 2

\* the host object a gradient or pattern dye was made from
HostObject(dye) ==
  IF dye.tag = "Gradient" THEN JsCanvasGradient(dye.shader) ELSE JsCanvasPattern(dye.shader)

\* C24: after any sequence of save, restore and style assignments, a current
\* fill or stroke dye that is a Gradient or a Pattern reads back (Dye::value,
\* through fetch_ref) as the host object whose assignment made it: never
\* undefined, never another object.
C24_StyleReadsBackItsObject ==
  /\ state.fill_style.tag \in {"Gradient", "Pattern"} =>
       Dye_value(state.fill_style, Now, refs, "Fill") = HostObject(state.fill_style)
  /\ state.stroke_style.tag \in {"Gradient", "Pattern"} =>
       Dye_value(state.stroke_style, Now, refs, "Stroke") = HostObject(state.stroke_style)

====
